---- MODULE Spec2Model ----
(***************************************************************************)
(* A model of statement-manager: the PayPal and Stripe HTTP layers (token  *)
(* lifecycle, 401 retry, 429 backoff) and the provider sources that drive  *)
(* them.                                                                   *)
(*                                                                         *)
(* Time.  The source counts milliseconds.  The model counts ticks, with    *)
(* Resolution ticks to the second, so that instants inside one second stay *)
(* distinguishable while 31 days still fits a 32-bit integer.  A source    *)
(* constant X_ms is kept under its name and holds X in ticks.              *)
(*                                                                         *)
(* Control.  Apps Script runs one synchronous call stack per process: a    *)
(* handler runs until it returns or throws and is suspended only inside    *)
(* UrlFetchApp.fetch / fetchAll / Utilities.sleep.  pc is the place where  *)
(* the running handler is suspended, "idle" when none runs.                *)
(***************************************************************************)
EXTENDS Integers, Sequences, FiniteSets, TLC

(* ------------------------------ bounds --------------------------------- *)
Resolution == 2      \* ticks per second
MaxTicks   == 1      \* how often the clock advances (by half an hour)
MaxTokens  == 2      \* tokens the token endpoint issues in one behaviour
MaxReqs    == 2      \* requests in one paypal_http_fetchAll batch
MaxStripeCalls == 2  \* calls of stripe_http_fetch in one behaviour
MaxSpan    == 1      \* whole 31-day chunks a requested interval reaches beyond its first
MaxPages   == 2      \* total_pages a transaction search reports
MaxText    == 2      \* characters of a freely composed text
MaxAmount  == 2      \* largest gross or fee amount of the report loop on its own
MaxRuns    == 2      \* runs of main_doSinceLast_ in one behaviour

(* ----------------------------- constants ------------------------------- *)
OneSecond         == Resolution                 \* the source's 1000 (ms)
PAYPAL_ONEHOUR_ms == 1 * 60 * 60 * OneSecond
HalfHour          == 30 * 60 * OneSecond
StartOfRun        == 4 * HalfHour               \* the clock when a behaviour starts

Callers  == {1, 2}           \* report generations that use the PayPal layer
Statuses == {200, 400, 401}  \* a success, an error that is not 401, and 401
TTLs     == {HalfHour, 3 * HalfHour}   \* expires_in values of the token endpoint

\* Expiry instants of a token found in the script properties at start.
StoredExpiries == {k * HalfHour : k \in {2, 3, 6, 7}}

NoHeader    == [kind |-> "none",   tok |-> 0]
Basic       == [kind |-> "Basic",  tok |-> 0]
Bearer(tok) == [kind |-> "Bearer", tok |-> tok]

VARIABLES
  now,                          \* Date.now()
  paypal_accessToken_,          \* 0 models undefined
  paypal_accessTokenExpires_,
  paypal_secret_,               \* TRUE once the credential has been loaded
  paypal_defaultHeaders_,       \* the Authorization entry of the default headers
  props,                        \* script properties: the persisted token
  issued,                       \* tokens issued so far by the token endpoint
  pc,                           \* where the running PayPal handler is suspended
  call,                         \* the running (or last finished) PayPal handler call
  guar,                         \* the last run of paypal_http_guaranteeToken_
  inFlight,                     \* credential exchanges sent and not yet answered
  refreshers,                   \* callers on whose behalf an exchange was sent
  stripe_defaultHeaders_,       \* TRUE once the Authorization header is set
  spc,                          \* where the running stripe_http_fetch is suspended
  scall,                        \* the running (or last finished) stripe_http_fetch
  stripeCalls,                  \* calls of stripe_http_fetch so far
  target,                       \* the provider this script execution reports on
  src,                          \* the run of paypal_getTransactions_
  ssrc,                         \* the run of stripe_getTransactions_
  rep,                          \* the run of paypal_makeReportOfx / stripe_makeReportOfx
  main,                         \* the run of main_doSinceLast_, and what outlives it
  ofx                           \* the last call made to the OFX writer on its own

tokenVars == <<paypal_accessToken_, paypal_accessTokenExpires_, paypal_secret_,
               paypal_defaultHeaders_, props, issued, guar, inFlight, refreshers>>
httpVars  == <<now, tokenVars, pc, call>>

stripeHttpVars == <<stripe_defaultHeaders_, spc, scall, stripeCalls>>

srcVars == <<target, main, src, ssrc, rep, ofx>>

vars == <<httpVars, stripeHttpVars, srcVars>>

(* ======================= PayPal HTTP layer ============================== *)

NoCall ==
  [op |-> "none", caller |-> 0, n |-> 0, mute |-> <<>>, withOptions |-> TRUE,
   optAuth |-> NoHeader, batches |-> <<>>, forced |-> 0, requestTime |-> 0,
   cont |-> "none", result |-> "none", resps |-> <<>>]

NoGuar ==
  [force |-> FALSE, path |-> "none", now |-> 0, tok |-> 0, exp |-> 0,
   pre |-> [mem |-> 0, memExp |-> 0, secret |-> FALSE, props |-> [token |-> 0, expires |-> 0]],
   sent |-> 0, wrote |-> FALSE, status |-> 0, ttl |-> 0]
\* ttl: data.expires_in of the answer to the token request

\* Mutant: a fetch that yields to other callers while its request is outstanding.
CallerMayEnter_yielding == TRUE

\* UrlFetchApp.fetch / fetchAll block the only call stack of the process: a
\* handler is entered only when no other handler is suspended in a request.
CallerMayEnter == pc = "idle"

\* Mutant: the comparison of the stored expiry turned around.
StoredTokenUsable_reversed(expires, t) == expires < t - PAYPAL_ONEHOUR_ms

\* if (!force && paypal_accessToken_ && paypal_accessTokenExpires_ > (Date.now() - PAYPAL_ONEHOUR_ms))
StoredTokenUsable(expires, t) == expires > t - PAYPAL_ONEHOUR_ms

\* The branch paypal_http_guaranteeToken_ takes before any token request.
GuaranteePath(force) ==
  IF ~force /\ paypal_accessToken_ # 0 THEN "memory"
  ELSE IF /\ ~paypal_secret_
          /\ ~force
          /\ props.token # 0
          /\ StoredTokenUsable(props.expires, now) THEN "store"
  ELSE "exchange"

\* paypal_http_guaranteeToken_(force) up to its early return or up to the
\* moment the token request has been sent.
GuaranteeBegin(force, c) ==
  LET path == GuaranteePath(force)
      load == path # "memory" /\ ~paypal_secret_
      tok  == IF load THEN props.token ELSE paypal_accessToken_
      exp  == IF load THEN props.expires ELSE paypal_accessTokenExpires_
  IN  /\ paypal_secret_' = (paypal_secret_ \/ path # "memory")
      /\ paypal_accessToken_' = tok
      /\ paypal_accessTokenExpires_' = exp
      /\ paypal_defaultHeaders_' =
           CASE path = "memory" -> paypal_defaultHeaders_
             [] path = "store"  -> Bearer(props.token)
             [] OTHER           -> Basic
      /\ inFlight' = IF path = "exchange" THEN inFlight + 1 ELSE inFlight
      /\ refreshers' = IF path = "exchange" THEN refreshers \cup {c} ELSE refreshers
      /\ guar' = [force |-> force, path |-> path, now |-> now, tok |-> tok, exp |-> exp,
                  pre |-> [mem |-> paypal_accessToken_, memExp |-> paypal_accessTokenExpires_,
                           secret |-> paypal_secret_, props |-> props],
                  sent |-> IF path = "exchange" THEN 1 ELSE 0,
                  wrote |-> FALSE, status |-> 0, ttl |-> 0]
      /\ UNCHANGED <<props, issued>>

\* Mutant: a 401 is no longer counted among the error statuses.
HttpErrorThrown_above401(muteRequested, code) == ~muteRequested /\ code > 401

\* if (!muteRequested && code >= 400) throw
HttpErrorThrown(muteRequested, code) == ~muteRequested /\ code >= 400

\* if (resp.getResponseCode() == 401): the access token was rejected
Unauthorized(code) == code = 401

\* Mutant: the token request sent with muteHttpExceptions, like the others.
TokenFetchThrows_muted(code) == FALSE

\* The token request leaves muteHttpExceptions unset, so UrlFetchApp.fetch
\* throws on every status that is not 2xx.
TokenFetchThrows(code) == ~(200 <= code /\ code < 300)

Batch(from, auth, resps) == [from |-> from, auth |-> auth, resps |-> resps]

Answer(batches, resps) ==
  [batches EXCEPT ![Len(batches)] = [@ EXCEPT !.resps = resps]]

\* function paypal_http_fetch(url, options={})
paypal_http_fetch(c, muteRequested) ==
  /\ CallerMayEnter
  /\ GuaranteeBegin(FALSE, c)
  /\ LET path == GuaranteePath(FALSE)
         base == [NoCall EXCEPT !.op = "fetch", !.caller = c, !.n = 1,
                                !.mute = <<muteRequested>>, !.requestTime = now]
     IN  IF path = "exchange"
         THEN /\ pc' = "g_wait"
              /\ call' = [base EXCEPT !.cont = "f_start"]
         ELSE /\ pc' = "f_wait1"
              /\ call' = [base EXCEPT !.optAuth = paypal_defaultHeaders_',
                                      !.batches = <<Batch(1, paypal_defaultHeaders_', <<>>)>>]
  /\ UNCHANGED now

\* The result of paypal_http_fetch once its final response is in.
FetchFinish(batches, code) ==
  /\ pc' = "done"
  /\ call' = IF HttpErrorThrown(call.mute[1], code)
             THEN [call EXCEPT !.batches = batches, !.result = "HttpError"]
             ELSE [call EXCEPT !.batches = batches, !.result = "return",
                     !.resps = <<[batch |-> Len(batches), req |-> 1, status |-> code]>>]

\* let resp = UrlFetchApp.fetch(url, options) returns with status code.
FetchResponse1(code) ==
  /\ pc = "f_wait1"
  /\ IF Unauthorized(code)
     THEN /\ GuaranteeBegin(TRUE, call.caller)
          /\ pc' = "g_wait"
          /\ call' = [call EXCEPT !.batches = Answer(call.batches, <<code>>),
                                  !.forced = @ + 1, !.requestTime = now,
                                  !.cont = "f_retry"]
     ELSE /\ FetchFinish(Answer(call.batches, <<code>>), code)
          /\ UNCHANGED tokenVars
  /\ UNCHANGED now

\* The retry, resp = UrlFetchApp.fetch(url, options), returns with status code.
FetchResponse2(code) ==
  /\ pc = "f_wait2"
  /\ FetchFinish(Answer(call.batches, <<code>>), code)
  /\ UNCHANGED <<now, tokenVars>>

\* The responses paypal_http_fetchAll returns for one answered batch.
BatchResps(b, sts) ==
  [i \in 1..Len(sts) |-> [batch |-> b, req |-> i, status |-> sts[i]]]

\* The final loop of paypal_http_fetchAll over resps.entries().
FetchAllFinish(batches, sts) ==
  /\ pc' = "done"
  /\ call' = IF \E i \in 1..Len(sts) : HttpErrorThrown(call.mute[i], sts[i])
             THEN [call EXCEPT !.batches = batches, !.result = "HttpError"]
             ELSE [call EXCEPT !.batches = batches, !.result = "return",
                     !.resps = BatchResps(1, sts)]

\* paypal_http_fetchAll after paypal_http_guaranteeToken_() returned: the loop
\* that reads request.options throws a TypeError when a request carries no
\* options object; otherwise the batch is sent.
FetchAllSend(base) ==
  IF base.withOptions
  THEN /\ pc' = "fa_wait1"
       /\ call' = [base EXCEPT !.optAuth = paypal_defaultHeaders_',
                               !.batches = <<Batch(1, paypal_defaultHeaders_', <<>>)>>]
  ELSE /\ pc' = "done"
       /\ call' = [base EXCEPT !.result = "TypeError"]

\* function paypal_http_fetchAll(requests), requests empty
paypal_http_fetchAll_empty(c) ==
  /\ CallerMayEnter
  /\ pc' = "done"
  /\ call' = [NoCall EXCEPT !.op = "fetchAll", !.caller = c, !.result = "return"]
  /\ UNCHANGED <<now, tokenVars>>

\* function paypal_http_fetchAll(requests), requests.length = Len(mutes) > 0
paypal_http_fetchAll(c, mutes, withOptions) ==
  /\ CallerMayEnter
  /\ GuaranteeBegin(FALSE, c)
  /\ LET base == [NoCall EXCEPT !.op = "fetchAll", !.caller = c, !.n = Len(mutes),
                                !.mute = mutes, !.withOptions = withOptions,
                                !.requestTime = now]
     IN  IF GuaranteePath(FALSE) = "exchange"
         THEN /\ pc' = "g_wait"
              /\ call' = [base EXCEPT !.cont = "fa_start"]
         ELSE FetchAllSend(base)
  /\ UNCHANGED now

\* let resps = UrlFetchApp.fetchAll(requests) returns with the statuses sts.
FetchAllResponse1(sts) ==
  /\ pc = "fa_wait1"
  /\ Len(sts) = call.n
  /\ IF \E i \in 1..Len(sts) : Unauthorized(sts[i])
     THEN /\ GuaranteeBegin(TRUE, call.caller)
          /\ pc' = "g_wait"
          /\ call' = [call EXCEPT !.batches = Answer(call.batches, sts),
                                  !.forced = @ + 1, !.requestTime = now,
                                  !.cont = "fa_retry"]
     ELSE /\ FetchAllFinish(Answer(call.batches, sts), sts)
          /\ UNCHANGED tokenVars
  /\ UNCHANGED now

\* What the suspended handler does once paypal_http_guaranteeToken_ returned.
AfterGuarantee ==
  CASE call.cont = "f_start" ->
         /\ pc' = "f_wait1"
         /\ call' = [call EXCEPT !.optAuth = paypal_defaultHeaders_',
                                 !.batches = <<Batch(1, paypal_defaultHeaders_', <<>>)>>]
    [] call.cont = "f_retry" ->
         \* options.headers was filled before the first attempt and is sent again
         /\ pc' = "f_wait2"
         /\ call' = [call EXCEPT !.batches = Append(@, Batch(1, call.optAuth, <<>>))]
    [] call.cont = "fa_start" -> FetchAllSend(call)
    [] OTHER ->
         \* requests.slice(i, requests.length): i is bound only inside the
         \* for loop above it, so evaluating it throws a ReferenceError
         /\ pc' = "done"
         /\ call' = [call EXCEPT !.result = "ReferenceError"]

\* Mutant: the expiry is counted from the arrival of the answer.
TokenExpiry_fromAnswer(requestTime, expires_in) == now + expires_in

\* paypal_accessTokenExpires_ = requestTime + data.expires_in * 1000
TokenExpiry(requestTime, expires_in) == requestTime + expires_in

\* The token request returns with status code; data is its parsed body.
ExchangeResponse(code, ttl) ==
  /\ pc = "g_wait"
  /\ IF TokenFetchThrows(code)
     THEN /\ pc' = "done"
          /\ call' = [call EXCEPT !.result = "AuthError"]
          /\ guar' = [guar EXCEPT !.status = code]
          /\ UNCHANGED <<paypal_accessToken_, paypal_accessTokenExpires_,
                         paypal_defaultHeaders_, props, issued>>
     ELSE LET ok  == 200 <= code /\ code < 300
              tok == IF ok THEN issued + 1 ELSE 0      \* data.access_token
              exp == IF ok THEN TokenExpiry(call.requestTime, ttl) ELSE 0
          IN  /\ ok => issued < MaxTokens
              /\ issued' = IF ok THEN issued + 1 ELSE issued
              /\ paypal_accessToken_' = tok
              /\ paypal_accessTokenExpires_' = exp
              /\ props' = [token |-> tok, expires |-> exp]
              /\ paypal_defaultHeaders_' = Bearer(tok)
              /\ guar' = [guar EXCEPT !.status = code, !.wrote = TRUE,
                                      !.tok = tok, !.exp = exp, !.ttl = ttl]
              /\ AfterGuarantee
  /\ inFlight' = inFlight - 1
  /\ UNCHANGED <<now, paypal_secret_, refreshers>>

\* Time passes, also while a request is outstanding.
Tick ==
  /\ now < StartOfRun + MaxTicks * HalfHour
  /\ now' = now + HalfHour
  /\ UNCHANGED <<tokenVars, pc, call>>

\* The finished handler's result or exception reaches its caller, which goes on.
HandlerReturns ==
  /\ pc = "done"
  /\ pc' = "idle"
  /\ call' = NoCall
  /\ guar' = NoGuar
  /\ UNCHANGED <<now, paypal_accessToken_, paypal_accessTokenExpires_, paypal_secret_,
                 paypal_defaultHeaders_, props, issued, inFlight, refreshers>>

\* A new script execution: module state starts undefined, properties persist.
NewProcess ==
  /\ pc = "idle"
  /\ paypal_secret_
  /\ paypal_accessToken_' = 0
  /\ paypal_accessTokenExpires_' = 0
  /\ paypal_secret_' = FALSE
  /\ paypal_defaultHeaders_' = NoHeader
  /\ call' = NoCall
  /\ guar' = NoGuar
  /\ refreshers' = {}
  /\ UNCHANGED <<now, props, issued, inFlight, pc>>

(* ======================= Stripe HTTP layer ============================== *)

\* const STRIPE_RETRY_SCHED_ms: exponential backoff with factor of 4
STRIPE_RETRY_SCHED_ms == <<15 * OneSecond, 60 * OneSecond, 4 * 60 * OneSecond>>

NoStripeCall ==
  [mute |-> FALSE, attempt |-> 0, sent |-> 0, sleeps |-> <<>>,
   statuses |-> <<>>, result |-> "none", returned |-> 0]

StripeStatuses == {200, 400, 429}  \* a success, an error that is not 429, and 429

\* while (resp.getResponseCode() == 429)
RateLimited(code) == code = 429

\* Mutant: the last entry of the schedule is never used.
RetriesExhausted_early(attempt) == attempt >= Len(STRIPE_RETRY_SCHED_ms) - 1

\* if (attempt >= STRIPE_RETRY_SCHED_ms.length) throw
RetriesExhausted(attempt) == attempt >= Len(STRIPE_RETRY_SCHED_ms)

\* Mutant: the schedule is read at a fixed place instead of at attempt.
RetryDelay_first(attempt) == STRIPE_RETRY_SCHED_ms[1]

\* const delay_ms = STRIPE_RETRY_SCHED_ms[attempt]  (arrays count from 0)
RetryDelay(attempt) == STRIPE_RETRY_SCHED_ms[attempt + 1]

\* function stripe_http_fetch(url, options={}), up to its first request;
\* stripe_http_getSecret_() sets the Authorization header on the first call.
stripe_http_fetch(muteRequested) ==
  /\ spc = "idle"
  /\ stripeCalls < MaxStripeCalls
  /\ stripeCalls' = stripeCalls + 1
  /\ stripe_defaultHeaders_' = TRUE
  /\ spc' = "s_wait"
  /\ scall' = [NoStripeCall EXCEPT !.mute = muteRequested, !.sent = 1]
  /\ UNCHANGED now

\* UrlFetchApp.fetch(url, options) returns with status code: the head of the
\* while loop, then either the sleep, the give-up or the code after the loop.
StripeResponse(code) ==
  /\ spc = "s_wait"
  /\ LET sts == Append(scall.statuses, code)
         \* attempt++ follows every request sent inside the loop
         attempt == IF scall.sent > 1 THEN scall.attempt + 1 ELSE scall.attempt
         c == [scall EXCEPT !.statuses = sts, !.attempt = attempt]
     IN  IF RateLimited(code)
         THEN IF RetriesExhausted(attempt)
              THEN /\ spc' = "done"
                   /\ scall' = [c EXCEPT !.result = "RateLimitExhausted"]
              ELSE /\ spc' = "s_sleep"
                   /\ scall' = [c EXCEPT !.sleeps = Append(@, RetryDelay(attempt))]
         ELSE /\ spc' = "done"
              /\ scall' = IF HttpErrorThrown(scall.mute, code)
                          THEN [c EXCEPT !.result = "HttpError"]
                          ELSE [c EXCEPT !.result = "return", !.returned = code]
  /\ UNCHANGED <<now, stripe_defaultHeaders_, stripeCalls>>

\* Utilities.sleep(delay_ms) is over; the request is sent again.
StripeWakes ==
  /\ spc = "s_sleep"
  /\ now' = now + scall.sleeps[Len(scall.sleeps)]
  /\ spc' = "s_wait"
  /\ scall' = [scall EXCEPT !.sent = @ + 1]
  /\ UNCHANGED <<stripe_defaultHeaders_, stripeCalls>>

\* The finished stripe_http_fetch hands its result or exception to its caller.
StripeHandlerReturns ==
  /\ spc = "done"
  /\ spc' = "idle"
  /\ scall' = NoStripeCall
  /\ UNCHANGED <<now, stripe_defaultHeaders_, stripeCalls>>

Min(a, b) == IF a < b THEN a ELSE b
Max(a, b) == IF a > b THEN a ELSE b

(* ======================= OFX writer ===================================== *)
(* Text is a sequence of one-character strings; a type code, which is only  *)
(* compared, is a string.  Amounts are whole minor units, so toFixed(2)     *)
(* prints them unchanged.                                                    *)

\* Mutant: the set of transaction types holds PAYMENT as well.
TXN_TYPES_withPayment == {"CREDIT", "DEBIT", "XFER", "FEE", "INT", "PAYMENT"}

\* const TXN_TYPES = new Set(['CREDIT', 'DEBIT', 'XFER', 'FEE', 'INT'])
TXN_TYPES == {"CREDIT", "DEBIT", "XFER", "FEE", "INT"}

\* type.toUpperCase(), on the spellings the model hands to ofx_makeTxn
toUpperCase(type) ==
  CASE type \in {"credit", "Credit"}   -> "CREDIT"
    [] type \in {"debit", "Debit"}     -> "DEBIT"
    [] type \in {"xfer", "Xfer"}       -> "XFER"
    [] type \in {"fee", "Fee"}         -> "FEE"
    [] type \in {"int", "Int"}         -> "INT"
    [] type \in {"payment", "Payment"} -> "PAYMENT"
    [] type \in {"check", "Check"}     -> "CHECK"
    [] type \in {"other", "Other"}     -> "OTHER"
    [] OTHER -> type

\* str.substring(0, n)
substring(str, n) == SubSeq(str, 1, Min(n, Len(str)))

RECURSIVE replaceAll(_, _, _)
\* str.replaceAll(c, by), c a single character: every occurrence of c gives
\* way to by, from left to right (the text is taken apart in halves)
replaceAll(str, c, by) ==
  IF str = <<>> THEN <<>>
  ELSE IF Len(str) = 1 THEN (IF str[1] = c THEN by ELSE str)
  ELSE replaceAll(SubSeq(str, 1, Len(str) \div 2), c, by)
         \o replaceAll(SubSeq(str, Len(str) \div 2 + 1, Len(str)), c, by)

\* Mutant: the closing angle bracket is left as it is.
ofx_escape__bareGt(str) ==
  replaceAll(replaceAll(str, "&", <<"&", "a", "m", "p", ";">>),
             "<", <<"&", "l", "t", ";">>)

\* function ofx_escape_(str)
ofx_escape_(str) ==
  replaceAll(replaceAll(replaceAll(str, "&", <<"&", "a", "m", "p", ";">>),
                        "<", <<"&", "l", "t", ";">>),
             ">", <<"&", "r", "t", ";">>)

\* The field limits written into ofx_makeTxn and ofx_makeHeader.
FITID_MAX  == 255
NAME_MAX   == 32
MEMO_MAX   == 255
BANKID_MAX == 9
ACCTID_MAX == 22

\* throw new Error('Given transaction type ${type} is not valid.')
NoBlock == [ok |-> FALSE, TRNTYPE |-> "", DTPOSTED |-> 0, TRNAMT |-> 0,
            FITID |-> <<>>, hasNAME |-> FALSE, NAME |-> <<>>,
            hasMEMO |-> FALSE, MEMO |-> <<>>]

\* function ofx_makeTxn(type, date, amount, id, name, memo): the block it
\* returns, or NoBlock when it throws
ofx_makeTxn(type, date, amount, id, name, memo) ==
  IF toUpperCase(type) \notin TXN_TYPES THEN NoBlock
  ELSE [ok |-> TRUE, TRNTYPE |-> toUpperCase(type), DTPOSTED |-> date, TRNAMT |-> amount,
        FITID |-> ofx_escape_(substring(id, FITID_MAX)),
        hasNAME |-> name # <<>>, NAME |-> ofx_escape_(substring(name, NAME_MAX)),
        hasMEMO |-> memo # <<>>, MEMO |-> ofx_escape_(substring(memo, MEMO_MAX))]

\* function ofx_makeHeader(fileDate, startDate, endDate, bankId, acctId): a
\* sixth argument is ignored, CURDEF is always USD
ofx_makeHeader(fileDate, startDate, endDate, bankId, acctId) ==
  [DTSERVER |-> fileDate, CURDEF |-> "USD",
   BANKID |-> ofx_escape_(substring(bankId, BANKID_MAX)),
   ACCTID |-> ofx_escape_(substring(acctId, ACCTID_MAX)),
   DTSTART |-> startDate, DTEND |-> endDate]

\* function ofx_makeFooter(balanceAmount, asOfDate)
ofx_makeFooter(balanceAmount, asOfDate) == [BALAMT |-> balanceAmount, DTASOF |-> asOfDate]

NoOfx ==
  [op |-> "none", type |-> "", text |-> <<>>, currency |-> "", block |-> NoBlock,
   header |-> <<>>, txn |-> <<>>, net |-> <<>>, gross |-> <<>>]

\* ofx_makeTxn is called with one text as id, name and memo.
OfxMakeTxn(type, text) ==
  /\ ofx.op = "none"
  /\ ofx' = [NoOfx EXCEPT !.op = "ofx_makeTxn", !.type = type, !.text = text,
                          !.block = ofx_makeTxn(type, 0, 0, text, text, text)]
  /\ UNCHANGED <<httpVars, stripeHttpVars, target, main, src, ssrc, rep>>

\* ofx_makeHeader is called as the report functions call it, with the
\* currency as sixth argument, and with one text as bankId and acctId; the
\* function declares five parameters, so the currency goes unread.
OfxMakeHeader(text, currency) ==
  /\ ofx.op = "none"
  /\ ofx' = [NoOfx EXCEPT !.op = "ofx_makeHeader", !.text = text, !.currency = currency,
                          !.header = <<ofx_makeHeader(0, 0, 0, text, text)>>]
  /\ UNCHANGED <<httpVars, stripeHttpVars, target, main, src, ssrc, rep>>

\* The caller takes the result; the writer keeps no state between calls.
OfxReturns ==
  /\ ofx.op # "none"
  /\ ofx' = NoOfx
  /\ UNCHANGED <<httpVars, stripeHttpVars, target, main, src, ssrc, rep>>

(* ======================= PayPal source ================================== *)

\* const PAYPAL_MAX_INTERVAL_ms = 31 * 24 * 60 * 60 * 1000; // 31 days
PAYPAL_MAX_INTERVAL_ms == 31 * 24 * 60 * 60 * OneSecond

\* Number.MAX_SAFE_INTEGER, the start of the running minimum out.startDate
MAX_SAFE_INTEGER == 2147483647

NoSrc ==
  [pcS |-> "idle", args |-> [start |-> 0, end |-> 0],
   startDate |-> 0, endDate |-> 0, chunkEndDate |-> 0, totalPages |-> 1, nreq |-> 0,
   out |-> [reportDate |-> 0, startDate |-> MAX_SAFE_INTEGER, endDate |-> 0,
            balance |-> 0, txns |-> <<>>],
   results |-> <<>>, log |-> <<>>, pages1 |-> <<>>, result |-> "none"]
\* log: the requests handed to the HTTP layer so far, in order
\* pages1: status, body kind, end_date, total_pages and number of transactions
\*         of the first-page responses received so far

\* if (startDate > endDate) throw new Error('invalid dates, ...')
InvalidInterval(startDate, endDate) == startDate > endDate

\* Mutant: the chunk is not cut to the maximum interval.
ChunkEnd_uncut(startDate, endDate) == endDate

\* const chunkEndDate = Math.min(endDate, startDate + PAYPAL_MAX_INTERVAL_ms)
ChunkEnd(startDate, endDate) == Min(endDate, startDate + PAYPAL_MAX_INTERVAL_ms)

\* Mutant: the next chunk starts on the end of the previous one.
NextChunkStart_overlapping(chunkEndDate) == chunkEndDate

\* startDate = chunkEndDate + 1000
NextChunkStart(chunkEndDate) == chunkEndDate + OneSecond

TxnRequest(startDate, chunkEndDate, page) ==
  [kind |-> "txn", start |-> startDate, end |-> chunkEndDate, page |-> page]

BalanceRequest(asOf) ==
  [kind |-> "balance", start |-> asOf, end |-> asOf, page |-> 0]

RECURSIVE Flat(_)
\* results.flat()
Flat(lists) == IF lists = <<>> THEN <<>> ELSE Head(lists) \o Flat(Tail(lists))

\* One element of transaction_details: transaction_info with its id, event
\* code, dates (0: no transaction_updated_date), gross amount and fee amount
\* (0: no fee_amount), amounts in minor units.  payer_info and the optional
\* memo fields are absent.
Txn(id, code, updated, initiated, gross, fee) ==
  [id |-> id, code |-> code, updated |-> updated, initiated |-> initiated,
   gross |-> gross, fee |-> fee]

\* ti.transaction_updated_date ?? ti.transaction_initiation_date
EffectiveDate(t) == IF t.updated # 0 THEN t.updated ELSE t.initiated

RECURSIVE InsertByDate(_, _)
InsertByDate(t, sorted) ==
  IF sorted = <<>> THEN <<t>>
  ELSE IF EffectiveDate(t) < EffectiveDate(Head(sorted)) THEN <<t>> \o sorted
  ELSE <<Head(sorted)>> \o InsertByDate(t, Tail(sorted))

\* Mutant: the transactions are left in the order of their arrival.
SortByDate_asReceived(txns) == txns

RECURSIVE SortByDate(_)
\* out.txns.sort((a, b) => ta - tb): stable, ascending by effective date
SortByDate(txns) ==
  IF txns = <<>> THEN <<>>
  ELSE InsertByDate(txns[Len(txns)], SortByDate(SubSeq(txns, 1, Len(txns) - 1)))

T0400 == <<"T", "0", "4", "0", "0">>     \* withdrawal to bank
T0006 == <<"T", "0", "0", "0", "6">>     \* payment
T1105 == <<"T", "1", "1", "0", "5">>     \* a reversal: none of the listed groups

\* The transactions one page may carry: none; a withdrawal followed by a
\* credit with a fee whose updated date lies before it; or a payment.
PageDetails(startDate, chunkEndDate) ==
  { <<>>,
    << Txn(<<"A">>, T0400, 0, chunkEndDate, 0 - 500, 0),
       Txn(<<"B">>, T1105, startDate, chunkEndDate, 1000, 0 - 30) >>,
    << Txn(<<"C">>, T0006, 0, startDate, 1000, 0 - 59) >> }

\* The end_date the provider resolves a requested range to: the requested
\* end, or an earlier one when its data ends before it.
ResolvedEnds(startDate, chunkEndDate) ==
  {chunkEndDate, Max(startDate, chunkEndDate - OneSecond)}

\* The answers the provider may give to the first page of a chunk: a body
\* with the resolved range, total_pages and the page's transactions (each
\* transaction stands for its effective date), or an error body.
FirstPageBodies(code, startDate, chunkEndDate) ==
  IF code >= 400
  THEN {[kind |-> k, total_pages |-> 0, start_date |-> 0, end_date |-> 0,
         last_refreshed |-> 0, details |-> <<>>] : k \in {"start_date", "other"}}
  ELSE {[kind |-> "page", total_pages |-> n, start_date |-> startDate,
         end_date |-> e, last_refreshed |-> now, details |-> d] :
          n \in 1..MaxPages, e \in ResolvedEnds(startDate, chunkEndDate),
          d \in PageDetails(startDate, chunkEndDate)}

\* Mutant: no error body is taken for the start-date condition.
StartDateTooNew_never(body) == FALSE

\* if (resp.json.name === "INVALID_REQUEST"
\*     && resp.json.message.toLowerCase().includes("start date"))
StartDateTooNew(body) == body.kind = "start_date"

\* The end of one chunk: the next chunk, or the balance request after
\* while (startDate <= endDate).
AfterChunk(s) ==
  LET next == NextChunkStart(s.chunkEndDate)
  IN  IF next <= s.endDate
      THEN [s EXCEPT !.pcS = "call_page1", !.startDate = next,
                     !.chunkEndDate = ChunkEnd(next, s.endDate),
                     !.totalPages = 1, !.nreq = 0]
      ELSE [s EXCEPT !.pcS = "call_balance", !.startDate = next]

\* function paypal_getTransactions_(startDate, endDate, currency='USD'),
\* up to the first request of the first chunk; called by paypal_makeReportOfx
paypal_getTransactions_(startDate, endDate) ==
  /\ target = "paypal"
  /\ src.pcS = "idle"
  /\ pc = "idle"
  /\ src' = IF InvalidInterval(startDate, endDate)
            THEN [NoSrc EXCEPT !.pcS = "done", !.result = "InvalidInterval",
                               !.args = [start |-> startDate, end |-> endDate]]
            ELSE [NoSrc EXCEPT !.pcS = "call_page1",
                               !.args = [start |-> startDate, end |-> endDate],
                               !.startDate = startDate, !.endDate = endDate,
                               !.chunkEndDate = ChunkEnd(startDate, endDate)]
  /\ UNCHANGED <<httpVars, stripeHttpVars, target, ssrc, ofx>>

\* const resp = paypal_http_fetch(url, {muteHttpExceptions: true}) is called
PaypalRequestsFirstPage ==
  /\ src.pcS = "call_page1"
  /\ paypal_http_fetch(1, TRUE)
  /\ src' = [src EXCEPT !.pcS = "wait_page1",
               !.log = Append(@, TxnRequest(src.startDate, src.chunkEndDate, 1))]
  /\ UNCHANGED <<stripeHttpVars, target, main, ssrc, rep, ofx>>

\* An exception of the HTTP layer leaves paypal_getTransactions_ uncaught.
Propagates(s, error) == [s EXCEPT !.pcS = "done", !.result = error]

Heard(status, body) ==
  [status |-> status, kind |-> body.kind, end_date |-> body.end_date,
   total_pages |-> body.total_pages, ntxns |-> Len(body.details)]

\* paypal_http_fetch returns the first page (or throws): the rest of the
\* page loop, and of the chunk loop when the chunk has one page.
PaypalFirstPageArrives(body) ==
  /\ src.pcS = "wait_page1"
  /\ HandlerReturns
  /\ src' =
       IF call.result # "return" THEN Propagates(src, call.result)
       ELSE IF call.resps[1].status >= 400 /\ StartDateTooNew(body)
            THEN [src EXCEPT !.pcS = "done", !.result = "null",
                             !.pages1 = Append(@, Heard(call.resps[1].status, body))]
       ELSE IF call.resps[1].status >= 400
            \* resp.json.transaction_details is undefined in an error body
            THEN Propagates([src EXCEPT
                               !.pages1 = Append(@, Heard(call.resps[1].status, body))],
                            "TypeError")
       ELSE LET s == [src EXCEPT
                        !.pages1 = Append(@, Heard(call.resps[1].status, body)),
                        !.totalPages = body.total_pages,
                        !.nreq = body.total_pages - 1,
                        !.out.reportDate = Max(@, body.last_refreshed),
                        !.out.startDate = Min(@, body.start_date),
                        !.out.endDate = Max(@, body.end_date),
                        !.results = IF Len(body.details) > 0
                                    THEN Append(@, body.details) ELSE @]
            IN  IF s.nreq > 0 THEN [s EXCEPT !.pcS = "call_pages"] ELSE AfterChunk(s)
  /\ UNCHANGED <<stripeHttpVars, target, main, ssrc, rep, ofx>>

\* const resps = paypal_http_fetchAll(requests) is called; every request is
\* {url: url}: no options object, muteHttpExceptions unset.
PaypalRequestsPages ==
  /\ src.pcS = "call_pages"
  /\ paypal_http_fetchAll(1, [i \in 1..src.nreq |-> FALSE], FALSE)
  /\ src' = [src EXCEPT !.pcS = "wait_pages",
               !.log = @ \o [i \in 1..src.nreq |->
                               TxnRequest(src.startDate, src.chunkEndDate, i + 1)]]
  /\ UNCHANGED <<stripeHttpVars, target, main, ssrc, rep, ofx>>

\* paypal_http_fetchAll returns pages 2..totalPages (or throws).
PaypalPagesArrive ==
  /\ src.pcS = "wait_pages"
  /\ HandlerReturns
  /\ src' =
       IF call.result # "return" THEN Propagates(src, call.result)
       ELSE AfterChunk([src EXCEPT
              !.results = @ \o [i \in 1..src.nreq |->
                                   <<Txn(<<"D">>, T0400, 0, src.startDate, 0 - 500, 0)>>]])
  /\ UNCHANGED <<stripeHttpVars, target, main, ssrc, rep, ofx>>

\* Mutant: the balance is asked as of the requested end.
BalanceAsOf_requestedEnd(s) == s.endDate

\* as_of_time: new Date(out.endDate).toISOString()
BalanceAsOf(s) == s.out.endDate

\* const resp = paypal_http_fetch(url) for the balance is called
PaypalRequestsBalance ==
  /\ src.pcS = "call_balance"
  /\ paypal_http_fetch(1, FALSE)
  /\ src' = [src EXCEPT !.pcS = "wait_balance",
               !.log = Append(@, BalanceRequest(BalanceAsOf(src)))]
  /\ UNCHANGED <<stripeHttpVars, target, main, ssrc, rep, ofx>>

\* paypal_http_fetch returns the balance (or throws); flatten, sort, return out.
PaypalBalanceArrives(balance) ==
  /\ src.pcS = "wait_balance"
  /\ HandlerReturns
  /\ src' =
       IF call.result # "return" THEN Propagates(src, call.result)
       ELSE [src EXCEPT !.pcS = "done", !.result = "out",
                        !.out.balance = balance,
                        !.out.txns = IF Len(src.results) = 0 THEN Flat(src.results)
                                     ELSE SortByDate(Flat(src.results))]
  /\ UNCHANGED <<stripeHttpVars, target, main, ssrc, rep, ofx>>

(* ======================= Stripe source ================================== *)

NoStripeSrc ==
  [pcS |-> "idle", args |-> [start |-> 0, end |-> 0], startDate |-> 0, endDate |-> 0,
   log |-> <<>>, availEnd |-> 0, result |-> "none",
   calls |-> <<>>, reportId |-> 0, results |-> <<>>, startAfter |-> 0, delay_ms |-> 0,
   out |-> [startDate |-> 0, endDate |-> 0, reportDate |-> 0, balance |-> 0,
            txns |-> <<>>]]
\* availEnd: data_available_end of the body the provider answered with (0: no answer)
\* calls: the calls of stripe_http_fetch with what they were answered, for the
\* function run against answers that carry their parsed body

\* function stripe_timestamp(date): Math.floor(new Date(date).getTime() / 1000)
stripe_timestamp(date) == date \div OneSecond

\* function stripe_getTransactions_(startDate, endDate, currency='USD'), up
\* to the request of stripe_getAvailableDates_(); called by stripe_makeReportOfx
stripe_getTransactions_(startDate, endDate) ==
  /\ target = "stripe"
  /\ ssrc.pcS = "idle"
  /\ spc = "idle"
  /\ stripeCalls < MaxStripeCalls
  /\ ssrc' = IF InvalidInterval(stripe_timestamp(startDate), stripe_timestamp(endDate))
             THEN [NoStripeSrc EXCEPT !.pcS = "done", !.result = "InvalidInterval",
                                      !.args = [start |-> startDate, end |-> endDate]]
             ELSE [NoStripeSrc EXCEPT !.pcS = "call_avail",
                                      !.args = [start |-> startDate, end |-> endDate],
                                      !.startDate = stripe_timestamp(startDate),
                                      !.endDate = stripe_timestamp(endDate)]
  /\ UNCHANGED <<httpVars, stripeHttpVars, target, src, ofx>>

\* stripe_getAvailableDates_(): const resp = stripe_http_fetch(...) is called
StripeRequestsAvailable ==
  /\ ssrc.pcS = "call_avail"
  /\ stripe_http_fetch(FALSE)
  /\ ssrc' = [ssrc EXCEPT !.pcS = "wait_avail", !.log = Append(@, "report_types")]
  /\ UNCHANGED <<tokenVars, pc, call, target, main, src, rep, ofx>>

\* stripe_http_fetch returns (or throws).  It returns the bare HTTPResponse,
\* on which it sets no json property, so resp.json.data_available_start
\* throws a TypeError.
StripeAvailableArrives(data_available_end) ==
  /\ ssrc.pcS = "wait_avail"
  /\ StripeHandlerReturns
  /\ ssrc' = IF scall.result # "return"
             THEN [ssrc EXCEPT !.pcS = "done", !.result = scall.result]
             ELSE [ssrc EXCEPT !.pcS = "done", !.result = "TypeError",
                               !.availEnd = data_available_end]
  /\ UNCHANGED <<tokenVars, pc, call, target, main, src, rep, ofx>>

(* ======================= report generation ============================== *)

NoRep ==
  [pcR |-> "idle", mode |-> "none", asked |-> [start |-> 0, end |-> 0],
   result |-> "none", header |-> <<>>,
   blocks |-> <<>>, footer |-> <<>>, startDate |-> 0, endDate |-> 0,
   reportDate |-> 0, balance |-> 0, numTxns |-> 0]

\* const group = code.substring(1,3)
Group(code) == SubSeq(code, 2, 3)

\* function paypal_ofxTxnCode_(code, amount)
paypal_ofxTxnCode_(code, amount) ==
  CASE Group(code) = <<"0", "0">> -> "PAYMENT"
    [] Group(code) = <<"0", "1">> -> "FEE"
    [] Group(code) \in {<<"0", "3">>, <<"0", "4">>, <<"1", "7">>, <<"2", "0">>, <<"2", "2">>}
         -> "XFER"
    [] Group(code) \in {<<"0", "8">>, <<"1", "4">>} -> "INT"
    [] OTHER -> IF amount < 0 THEN "DEBIT" ELSE "CREDIT"

\* function paypal_ofxTxnTypeName_(code, amount)
paypal_ofxTxnTypeName_(code, amount) ==
  CASE code = <<"T", "0", "0", "0", "2">>
         -> <<"r","e","c","u","r","r","i","n","g"," ","p","a","y","m","e","n","t">>
    [] code = <<"T", "0", "0", "1", "3">>
         -> <<"d","o","n","a","t","i","o","n"," ","p","a","y","m","e","n","t">>
    [] code \notin {<<"T", "0", "0", "0", "2">>, <<"T", "0", "0", "1", "3">>}
         /\ Group(code) = <<"0", "0">> -> <<"p","a","y","m","e","n","t">>
    [] Group(code) = <<"0", "1">> -> <<"f","e","e">>
    [] Group(code) = <<"0", "3">>
         -> <<"d","e","p","o","s","i","t"," ","f","r","o","m"," ","b","a","n","k">>
    [] Group(code) = <<"0", "4">>
         -> <<"w","i","t","h","d","r","a","w","a","l"," ","t","o"," ","b","a","n","k">>
    [] OTHER -> IF amount < 0
                THEN <<"a","c","c","o","u","n","t"," ","d","e","b","i","t">>
                ELSE <<"a","c","c","o","u","n","t"," ","c","r","e","d","i","t">>

PayPalName == <<"P", "a", "y", "P", "a", "l">>

\* Mutant: the net amount takes the fee off a second time.
AmountNet_feeTwice(amountGross, amountFee) == amountGross + amountFee + amountFee

\* const amountNet = amountGross + amountFee
AmountNet(amountGross, amountFee) == amountGross + amountFee

\* if (!isNet && amountFee != 0)
FeeBlockWanted(isNet, amountFee) == ~isNet /\ amountFee # 0

\* The body of for (const txn of res.txns) in paypal_makeReportOfx: the blocks
\* appended for one transaction without payer_info.
PaypalTxnBlocks(txn, isNet) ==
  LET date     == EffectiveDate(txn)
      name     == paypal_ofxTxnTypeName_(txn.code, txn.gross)
      memo     == txn.id
      entry    == ofx_makeTxn(paypal_ofxTxnCode_(txn.code, txn.gross), date,
                              IF isNet THEN AmountNet(txn.gross, txn.fee) ELSE txn.gross,
                              txn.id \o <<"-">> \o txn.code, name, memo)
      feeBlock == ofx_makeTxn("FEE", date, txn.fee, txn.id \o <<"-", "1">>, PayPalName,
                              <<"p","r","o","c","e","s","s","i","n","g"," ","f","e","e",
                                " ","f","o","r",":">> \o txn.id)
  IN  IF FeeBlockWanted(isNet, txn.fee) THEN <<entry, feeBlock>> ELSE <<entry>>

RECURSIVE PaypalBlocks(_, _)
PaypalBlocks(txns, isNet) ==
  IF txns = <<>> THEN <<>>
  ELSE PaypalTxnBlocks(Head(txns), isNet) \o PaypalBlocks(Tail(txns), isNet)

\* Mutant: the loop over the transactions also fails when there are none.
Thrown_whenEmpty(blocks) == blocks = <<>> \/ \E i \in 1..Len(blocks) : ~blocks[i].ok

\* ofx_makeTxn threw on one of the blocks.
Thrown(blocks) == \E i \in 1..Len(blocks) : ~blocks[i].ok

AccountNumber == <<"X", "1">>      \* resp.json.account_number

\* One pass of the loop of paypal_makeReportOfx over a transaction, in one
\* mode; the blocks emitted for the same transaction in the other mode stay.
PaypalEmits(txn, mode) ==
  /\ ofx.op = "none" \/ (ofx.op = "emit" /\ ofx.txn = <<txn>>)
  /\ ofx' = LET blocks  == PaypalTxnBlocks(txn, mode = "net")
                emitted == IF Thrown(blocks) THEN <<>> ELSE blocks
                kept    == [ofx EXCEPT !.op = "emit", !.txn = <<txn>>]
            IN  IF mode = "net" THEN [kept EXCEPT !.net = emitted]
                                ELSE [kept EXCEPT !.gross = emitted]
  /\ UNCHANGED <<httpVars, stripeHttpVars, target, main, src, ssrc, rep>>

\* One element of res.txns of stripe_getTransactions_: a balance transaction
\* with its id, reporting_category, created (seconds), amount and fee (minor
\* units; Stripe counts a fee paid as a positive number).  description and
\* source are absent.
StripeTxn(id, reporting_category, created, amount, fee) ==
  [id |-> id, reporting_category |-> reporting_category, created |-> created,
   amount |-> amount, fee |-> fee]

\* reportingCategory.toLowerCase(), on the categories the model hands in
toLowerCase(str) ==
  CASE str = "Charge" -> "charge"
    [] str = "Refund" -> "refund"
    [] str = "Payout" -> "payout"
    [] OTHER -> str

\* function stripe_ofxTxnCode_(reportingCategory, amount)
stripe_ofxTxnCode_(reportingCategory, amount) ==
  LET cat == toLowerCase(reportingCategory)
  IN  CASE cat = "charge" -> "PAYMENT"
        [] cat \in {"fee", "tax"} -> "FEE"
        [] cat \in {"payout", "payout_reversal", "topup", "topup_reversal",
                    "transfer", "transfer_reversal"} -> "XFER"
        [] OTHER -> IF amount < 0 THEN "DEBIT" ELSE "CREDIT"

\* The reporting_category as text
CategoryText(reporting_category) ==
  CASE reporting_category = "charge" -> <<"c","h","a","r","g","e">>
    [] reporting_category = "Refund" -> <<"R","e","f","u","n","d">>
    [] reporting_category = "refund" -> <<"r","e","f","u","n","d">>
    [] reporting_category = "payout" -> <<"p","a","y","o","u","t">>
    [] OTHER -> <<"o","t","h","e","r">>

\* txn.object
StripeObject ==
  <<"b","a","l","a","n","c","e","_","t","r","a","n","s","a","c","t","i","o","n">>

StripeFeeName ==
  <<"S","t","r","i","p","e"," ","p","r","o","c","e","s","s","i","n","g"," ","f","e","e","s">>

\* The body of for (const txn of res.txns) in stripe_makeReportOfx: the blocks
\* appended for one transaction without description and source.  The loop
\* reads no mode: the transaction goes out at its amount, and a fee that is
\* not zero as a FEE entry after it.
StripeTxnBlocks(txn) ==
  LET date     == txn.created * OneSecond
      memo     == CategoryText(txn.reporting_category) \o <<" ", "/", "/", " ">> \o txn.id
      entry    == ofx_makeTxn(stripe_ofxTxnCode_(txn.reporting_category, txn.amount), date,
                              txn.amount, txn.id, StripeObject, memo)
      \* 'for:' + src.id ?? ...: the sum is never null, and src.id is undefined
      feeBlock == ofx_makeTxn("FEE", date, txn.fee, txn.id \o <<"-", "1">>, StripeFeeName,
                              <<"f","o","r",":","u","n","d","e","f","i","n","e","d">>)
  IN  IF txn.fee # 0 THEN <<entry, feeBlock>> ELSE <<entry>>

\* One pass of the loop of stripe_makeReportOfx over a transaction, called as
\* main_doReport_ calls it, stripe_makeReportOfx(startDate, endDate, currency,
\* mode): the function declares three parameters and the mode goes unread.
StripeEmits(txn, mode) ==
  /\ ofx.op = "none" \/ (ofx.op = "stripe_emit" /\ ofx.txn = <<txn>>)
  /\ ofx' = LET blocks  == StripeTxnBlocks(txn)
                emitted == IF Thrown(blocks) THEN <<>> ELSE blocks
                kept    == [ofx EXCEPT !.op = "stripe_emit", !.txn = <<txn>>]
            IN  IF mode = "net" THEN [kept EXCEPT !.net = emitted]
                                ELSE [kept EXCEPT !.gross = emitted]
  /\ UNCHANGED <<httpVars, stripeHttpVars, target, main, src, ssrc, rep>>

\* The state of main_doSinceLast_ and of what it leaves behind: the script
\* property <target>_since_previous_startdate (marker, 0: not set), the
\* property email_recipients_list (recipients: set or not) and the emails
\* sent so far.  before and sentBefore are the marker and the emails as
\* main_doSinceLast_ found them.
NoMain ==
  [pcM |-> "idle", recipients |-> TRUE, marker |-> 0, before |-> 0, emails |-> 0,
   sentBefore |-> 0, runs |-> 0, startDate |-> 0, endDate |-> 0, result |-> "none",
   reports |-> <<>>]
\* reports: of every run that mailed its report and stored its end, the
\* requested start, the report's endDate and the inclusive range the provider
\* was asked for (from) and reported (upTo)

\* Mutant: whatever the report function hands back is mailed and recorded.
MainHears_always(r) ==
  IF main.pcM # "running" THEN main
  ELSE IF r.result \in {"report", "null"} THEN [main EXCEPT !.pcM = "mail"]
  ELSE [main EXCEPT !.pcM = "done", !.result = r.result]

\* main_doReport_ after its report function returned or threw: an exception
\* leaves main_doReport_ and main_doSinceLast_ uncaught; null is handed back
\* (if (!res) return res) and main_doSinceLast_ skips the marker (if (res));
\* a report goes on to MailApp.sendEmail.
MainHears(r) ==
  IF main.pcM # "running" THEN main
  ELSE IF r.result = "report" THEN [main EXCEPT !.pcM = "mail"]
  ELSE [main EXCEPT !.pcM = "done", !.result = r.result]

\* new Date(endDate).getTime() - 1*1000: the OFX end (exclusive) as a PayPal
\* end (inclusive, one second resolution)
InclusiveEnd(endDate) == endDate - OneSecond

\* Mutant: the second is added once more on the way back.
ExclusiveEnd_twice(endDate) == endDate + 2 * OneSecond

\* res.endDate = new Date(res.endDate).getTime() + 1*1000
ExclusiveEnd(endDate) == endDate + OneSecond

\* function paypal_makeReportOfx(startDate, endDate, currency, mode), up to
\* the first request of paypal_getTransactions_
paypal_makeReportOfx(startDate, endDate, mode) ==
  /\ rep.pcR = "idle"
  /\ paypal_getTransactions_(startDate, InclusiveEnd(endDate))
  /\ rep' = [NoRep EXCEPT !.pcR = "running", !.mode = mode,
                          !.asked = [start |-> startDate, end |-> endDate]]

\* paypal_getTransactions_ returns (or throws): the rest of paypal_makeReportOfx
PaypalReportReturns ==
  /\ target = "paypal"
  /\ rep.pcR = "running"
  /\ src.pcS = "done"
  /\ rep' =
       IF src.result = "null" THEN [rep EXCEPT !.pcR = "done", !.result = "null"]
       ELSE IF src.result # "out" THEN [rep EXCEPT !.pcR = "done", !.result = src.result]
       ELSE LET endDate == ExclusiveEnd(src.out.endDate)
                blocks  == PaypalBlocks(src.out.txns, rep.mode = "net")
            IN  IF Thrown(blocks)
                THEN [rep EXCEPT !.pcR = "done", !.result = "InvalidTransactionType"]
                ELSE [rep EXCEPT
                        !.pcR = "done", !.result = "report",
                        !.header = <<ofx_makeHeader(src.out.reportDate, src.out.startDate,
                                                    endDate, PayPalName, AccountNumber)>>,
                        !.blocks = blocks,
                        !.footer = <<ofx_makeFooter(src.out.balance, endDate)>>,
                        !.reportDate = src.out.reportDate,
                        !.startDate = src.out.startDate,
                        !.endDate = endDate,
                        !.balance = src.out.balance,
                        !.numTxns = Len(src.out.txns)]
  /\ main' = MainHears(rep')
  /\ UNCHANGED <<httpVars, stripeHttpVars, target, src, ssrc, ofx>>

\* function stripe_makeReportOfx(startDate, endDate, currency), up to the
\* first request of stripe_getTransactions_; it has no mode parameter
stripe_makeReportOfx(startDate, endDate) ==
  /\ rep.pcR = "idle"
  /\ stripe_getTransactions_(startDate, endDate)
  /\ rep' = [NoRep EXCEPT !.pcR = "running",
                          !.asked = [start |-> startDate, end |-> endDate]]

\* stripe_getTransactions_ returns null (or throws): the rest of
\* stripe_makeReportOfx
StripeReportReturns ==
  /\ target = "stripe"
  /\ rep.pcR = "running"
  /\ ssrc.pcS = "done"
  /\ ssrc.result # "out"
  /\ rep' = [rep EXCEPT !.pcR = "done", !.result = ssrc.result]
  /\ main' = MainHears(rep')
  /\ UNCHANGED <<httpVars, stripeHttpVars, target, src, ssrc, ofx>>

\* The start of the current year in the script's timezone, the start date of
\* a target that has no marker yet.
YearStart == 10 * OneSecond

\* Mutant: every run starts at the beginning of the year.
SinceLastStart_yearStart(marker) == YearStart

\* let startDate = ps.getProperty(target + SINCE_PREV_START_KEY);
\* if (!startDate) { startDate = <January 1st of the current year> }
SinceLastStart(marker) == IF marker # 0 THEN marker ELSE YearStart

\* function main_doSinceLast_(targetPretty) with main_doReport_, up to the
\* first request of the report function (or to the throw for missing
\* recipients); mode is the script property 'mode'
main_doSinceLast_(mode) ==
  /\ main.pcM = "idle"
  /\ main.runs < MaxRuns
  /\ LET startDate == SinceLastStart(main.marker)
         m == [main EXCEPT !.runs = @ + 1, !.before = main.marker,
                           !.sentBefore = main.emails,
                           !.startDate = startDate, !.endDate = now]
     IN  IF ~main.recipients
         THEN /\ main' = [m EXCEPT !.pcM = "done", !.result = "NoRecipients"]
              /\ UNCHANGED <<httpVars, stripeHttpVars, target, src, ssrc, rep, ofx>>
         ELSE /\ main' = [m EXCEPT !.pcM = "running"]
              /\ IF target = "paypal"
                 THEN paypal_makeReportOfx(startDate, now, mode)
                 ELSE stripe_makeReportOfx(startDate, now)

ReportMailed ==
  [start |-> main.startDate, end |-> rep.endDate,
   from  |-> IF src.log = <<>> THEN 0 ELSE src.log[1].start,
   upTo  |-> src.out.endDate]

\* MailApp.sendEmail returns (or throws); then main_doSinceLast_ stores the
\* end date of the report: ps.setProperty(target + SINCE_PREV_START_KEY,
\* new Date(res.endDate)).
MailSent(sent) ==
  /\ main.pcM = "mail"
  /\ main' = IF sent
             THEN [main EXCEPT !.pcM = "done", !.result = "report",
                               !.emails = @ + 1, !.marker = rep.endDate,
                               !.reports = Append(@, ReportMailed)]
             ELSE [main EXCEPT !.pcM = "done", !.result = "MailError"]
  /\ UNCHANGED <<httpVars, stripeHttpVars, target, src, ssrc, rep, ofx>>

\* The script execution ends; the next one starts with fresh module state.
NewExecution ==
  /\ "done" \in {rep.pcR, main.pcM}
  /\ main.pcM \in {"idle", "done"}
  /\ src' = NoSrc
  /\ ssrc' = NoStripeSrc
  /\ rep' = NoRep
  /\ main' = [main EXCEPT !.pcM = "idle", !.result = "none", !.before = 0,
                          !.sentBefore = 0, !.startDate = 0, !.endDate = 0]
  /\ paypal_accessToken_' = 0
  /\ paypal_accessTokenExpires_' = 0
  /\ paypal_secret_' = FALSE
  /\ paypal_defaultHeaders_' = NoHeader
  /\ guar' = NoGuar
  /\ refreshers' = {}
  /\ stripe_defaultHeaders_' = FALSE
  /\ UNCHANGED <<now, props, issued, inFlight, pc, call, spc, scall,
                 stripeCalls, target, ofx>>

(* ======================= specifications ================================= *)

Mutes(n) == [1..n -> BOOLEAN]
StatusSeqs(n) == [1..n -> Statuses]

PaypalHttpFresh ==
  /\ paypal_accessToken_ = 0
  /\ paypal_accessTokenExpires_ = 0
  /\ paypal_secret_ = FALSE
  /\ paypal_defaultHeaders_ = NoHeader
  /\ pc = "idle"
  /\ call = NoCall
  /\ guar = NoGuar
  /\ inFlight = 0
  /\ refreshers = {}

\* The script properties at start: no token, or one stored by an earlier run.
StoredAtStart ==
  /\ props \in {[token |-> 0, expires |-> 0]}
               \cup {[token |-> 1, expires |-> e] : e \in StoredExpiries}
  /\ issued = props.token

StripeHttpFresh ==
  /\ stripe_defaultHeaders_ = FALSE
  /\ spc = "idle"
  /\ scall = NoStripeCall
  /\ stripeCalls = 0

SourcesIdle ==
  /\ main = NoMain
  /\ src = NoSrc
  /\ ssrc = NoStripeSrc
  /\ rep = NoRep
  /\ ofx = NoOfx

(* The PayPal HTTP layer under arbitrary callers. *)
InitPaypalHttp ==
  /\ now = StartOfRun
  /\ PaypalHttpFresh
  /\ StoredAtStart
  /\ StripeHttpFresh
  /\ target = "paypal"
  /\ SourcesIdle

NextPaypalHttp ==
  \/ \E c \in Callers, m \in BOOLEAN :
       paypal_http_fetch(c, m) /\ UNCHANGED <<stripeHttpVars, srcVars>>
  \/ \E c \in Callers :
       paypal_http_fetchAll_empty(c) /\ UNCHANGED <<stripeHttpVars, srcVars>>
  \/ \E c \in Callers, n \in 1..MaxReqs, w \in BOOLEAN :
       \E mutes \in Mutes(n) :
         paypal_http_fetchAll(c, mutes, w) /\ UNCHANGED <<stripeHttpVars, srcVars>>
  \/ \E code \in Statuses :
       FetchResponse1(code) /\ UNCHANGED <<stripeHttpVars, srcVars>>
  \/ \E code \in Statuses :
       FetchResponse2(code) /\ UNCHANGED <<stripeHttpVars, srcVars>>
  \/ \E n \in 1..MaxReqs : \E sts \in StatusSeqs(n) :
       FetchAllResponse1(sts) /\ UNCHANGED <<stripeHttpVars, srcVars>>
  \/ \E code \in Statuses, ttl \in TTLs :
       ExchangeResponse(code, ttl) /\ UNCHANGED <<stripeHttpVars, srcVars>>
  \/ HandlerReturns /\ UNCHANGED <<stripeHttpVars, srcVars>>
  \/ Tick /\ UNCHANGED <<stripeHttpVars, srcVars>>
  \/ NewProcess /\ UNCHANGED <<stripeHttpVars, srcVars>>

SpecPaypalHttp == InitPaypalHttp /\ [][NextPaypalHttp]_vars

(* The Stripe HTTP layer under an arbitrary caller. *)
InitStripeHttp ==
  /\ now = StartOfRun
  /\ PaypalHttpFresh
  /\ props = [token |-> 0, expires |-> 0]
  /\ issued = 0
  /\ StripeHttpFresh
  /\ target = "stripe"
  /\ SourcesIdle

NextStripeHttp ==
  \/ \E m \in BOOLEAN :
       stripe_http_fetch(m) /\ UNCHANGED <<tokenVars, pc, call, srcVars>>
  \/ \E code \in StripeStatuses :
       StripeResponse(code) /\ UNCHANGED <<tokenVars, pc, call, srcVars>>
  \/ StripeWakes /\ UNCHANGED <<tokenVars, pc, call, srcVars>>
  \/ StripeHandlerReturns /\ UNCHANGED <<tokenVars, pc, call, srcVars>>

SpecStripeHttp == InitStripeHttp /\ [][NextStripeHttp]_vars

(* The provider sources on top of their HTTP layers: every script execution
   runs the source of its target once. *)
SourceEpoch == 10 * OneSecond        \* a whole second

PaypalLengths ==
  {0 - OneSecond, 0 - 1}
    \cup {k * (PAYPAL_MAX_INTERVAL_ms + OneSecond) + d :
            k \in 0..MaxSpan, d \in {0, 1, PAYPAL_MAX_INTERVAL_ms, PAYPAL_MAX_INTERVAL_ms + 1}}

StripeStarts  == {SourceEpoch, SourceEpoch + 1}
StripeLengths == {0 - OneSecond, 0 - 1, 0, 1, OneSecond}

\* data_available_end of the provider, in seconds: before, at and after the
\* requested start
AvailableEnds == {stripe_timestamp(SourceEpoch) + d : d \in {0 - 1, 0, 1}}

Balances == {0, 7}

\* mode: 'net', or anything else, which reports gross
Modes == {"net", "gross"}

NoBody ==
  [kind |-> "none", total_pages |-> 0, start_date |-> 0, end_date |-> 0,
   last_refreshed |-> 0, details |-> <<>>]

\* The bodies that may come with the answer paypal_http_fetch just returned.
ArrivingBodies ==
  IF call.result = "return"
  THEN FirstPageBodies(call.resps[1].status, src.startDate, src.chunkEndDate)
  ELSE {NoBody}

InitSources ==
  /\ now = StartOfRun
  /\ PaypalHttpFresh
  /\ StoredAtStart
  /\ StripeHttpFresh
  /\ target \in {"paypal", "stripe"}
  /\ SourcesIdle

NextSources ==
  \/ \E len \in PaypalLengths, mode \in Modes :
       paypal_makeReportOfx(SourceEpoch, SourceEpoch + len + OneSecond, mode)
         /\ UNCHANGED main
  \/ PaypalRequestsFirstPage
  \/ \E body \in ArrivingBodies : PaypalFirstPageArrives(body)
  \/ PaypalRequestsPages
  \/ PaypalPagesArrive
  \/ PaypalRequestsBalance
  \/ \E balance \in Balances : PaypalBalanceArrives(balance)
  \/ PaypalReportReturns
  \/ \E code \in Statuses :
       FetchResponse1(code) /\ UNCHANGED <<stripeHttpVars, srcVars>>
  \/ \E code \in Statuses :
       FetchResponse2(code) /\ UNCHANGED <<stripeHttpVars, srcVars>>
  \/ \E code \in Statuses, ttl \in TTLs :
       ExchangeResponse(code, ttl) /\ UNCHANGED <<stripeHttpVars, srcVars>>
  \/ \E start \in StripeStarts, len \in StripeLengths :
       stripe_makeReportOfx(start, start + len) /\ UNCHANGED main
  \/ StripeRequestsAvailable
  \/ \E data_available_end \in AvailableEnds : StripeAvailableArrives(data_available_end)
  \/ StripeReportReturns
  \/ \E code \in StripeStatuses :
       StripeResponse(code) /\ UNCHANGED <<tokenVars, pc, call, srcVars>>
  \/ StripeWakes /\ UNCHANGED <<tokenVars, pc, call, srcVars>>
  \/ NewExecution

SpecSources == InitSources /\ [][NextSources]_vars

(* The scheduled entry points: every script execution runs main_doSinceLast_
   for its target, on the marker the execution before it left. *)
StoredMarkers == {0, YearStart + OneSecond}

InitMain ==
  /\ now = StartOfRun
  /\ PaypalHttpFresh
  /\ StoredAtStart
  /\ StripeHttpFresh
  /\ target \in {"paypal", "stripe"}
  /\ src = NoSrc
  /\ ssrc = NoStripeSrc
  /\ rep = NoRep
  /\ ofx = NoOfx
  /\ main \in {[NoMain EXCEPT !.recipients = r, !.marker = m] :
                 r \in BOOLEAN, m \in StoredMarkers}

NextMain ==
  \/ \E mode \in Modes : main_doSinceLast_(mode)
  \/ PaypalRequestsFirstPage
  \/ \E body \in ArrivingBodies : PaypalFirstPageArrives(body)
  \/ PaypalRequestsPages
  \/ PaypalPagesArrive
  \/ PaypalRequestsBalance
  \/ \E balance \in Balances : PaypalBalanceArrives(balance)
  \/ PaypalReportReturns
  \/ \E code \in Statuses :
       FetchResponse1(code) /\ UNCHANGED <<stripeHttpVars, srcVars>>
  \/ \E code \in Statuses :
       FetchResponse2(code) /\ UNCHANGED <<stripeHttpVars, srcVars>>
  \/ \E code \in Statuses, ttl \in TTLs :
       ExchangeResponse(code, ttl) /\ UNCHANGED <<stripeHttpVars, srcVars>>
  \/ StripeRequestsAvailable
  \/ \E data_available_end \in AvailableEnds : StripeAvailableArrives(data_available_end)
  \/ StripeReportReturns
  \/ \E code \in StripeStatuses :
       StripeResponse(code) /\ UNCHANGED <<tokenVars, pc, call, srcVars>>
  \/ StripeWakes /\ UNCHANGED <<tokenVars, pc, call, srcVars>>
  \/ \E sent \in BOOLEAN : MailSent(sent)
  \/ Tick /\ UNCHANGED <<stripeHttpVars, srcVars>>
  \/ NewExecution

SpecMain == InitMain /\ [][NextMain]_vars

(* The OFX writer and the report loop on their own, over texts and amounts *)
(* drawn from bounded sets.                                                 *)
Alphabet == {"a", "&", "<", ">"}

Repeat(c, n) == [i \in 1..n |-> c]

\* Lengths at and around every field limit.
TextLengths ==
  {0, 1} \cup UNION {{l - 1, l, l + 1} :
                       l \in {FITID_MAX, NAME_MAX, MEMO_MAX, BANKID_MAX, ACCTID_MAX}}

\* Every text of up to MaxText characters, alone or after a run of one
\* character that reaches a field limit.
ShortTexts == UNION {[1..n -> Alphabet] : n \in 0..MaxText}

Texts ==
  ShortTexts
    \cup {Repeat(c, n) : c \in Alphabet, n \in TextLengths}
    \cup {Repeat("a", n - 1) \o t : n \in TextLengths \ {0}, t \in ShortTexts}

TypeSpellings ==
  {"CREDIT", "credit", "Credit", "DEBIT", "debit", "Debit", "XFER", "xfer", "Xfer",
   "FEE", "fee", "Fee", "INT", "int", "Int", "PAYMENT", "payment", "Payment",
   "CHECK", "check", "Check", "OTHER", "other", "Other"}

\* The calls of ofx_makeTxn: every spelling with one text, every text with
\* one spelling.
TxnCalls ==
  {<<type, <<"a", "&">>>> : type \in TypeSpellings} \cup {<<"Fee", text>> : text \in Texts}

\* The script property 'currency': a three letter ISO code, USD by default.
Currencies == {"USD", "EUR", "CNY"}

\* The calls of ofx_makeHeader: every text with one currency, every currency
\* with one text.
HeaderCalls ==
  {<<text, "USD">> : text \in Texts} \cup {<<PayPalName, cur>> : cur \in Currencies}

Amounts == (0 - MaxAmount)..MaxAmount

StripeCategories == {"charge", "refund", "Refund", "payout"}

InitOfx ==
  /\ now = StartOfRun
  /\ PaypalHttpFresh
  /\ props = [token |-> 0, expires |-> 0]
  /\ issued = 0
  /\ StripeHttpFresh
  /\ target = "paypal"
  /\ SourcesIdle

NextOfx ==
  \/ \E c \in TxnCalls : OfxMakeTxn(c[1], c[2])
  \/ \E c \in HeaderCalls : OfxMakeHeader(c[1], c[2])
  \/ \E code \in {T0400, T0006, T1105}, gross \in Amounts, fee \in Amounts,
        mode \in Modes :
       PaypalEmits(Txn(<<"A">>, code, 0, SourceEpoch, gross, fee), mode)
  \/ \E cat \in StripeCategories, amount \in Amounts, fee \in 0..MaxAmount,
        mode \in Modes :
       StripeEmits(StripeTxn(<<"S">>, cat, stripe_timestamp(SourceEpoch), amount, fee), mode)
  \/ OfxReturns

SpecOfx == InitOfx /\ [][NextOfx]_vars

(* ======================= claims: Stripe HTTP layer ====================== *)

Is2xx(code) == 200 <= code /\ code < 300

\* C3: one call of stripe_http_fetch sends at most 4 requests and sleeps at
\* most 3 times, the sleeps being 15 s, 60 s and 240 s in that order; when
\* every answer is 429 it sends exactly 4 requests, sleeps all three times and
\* fails with the rate-limit-exhausted error, and it fails so in no other case.
C3_RateLimitSchedule ==
  LET sched == <<15 * OneSecond, 60 * OneSecond, 240 * OneSecond>>
      all429 == \A i \in 1..Len(scall.statuses) : scall.statuses[i] = 429
  IN  /\ scall.sent <= 4
      /\ Len(scall.sleeps) <= 3
      /\ scall.sleeps = SubSeq(sched, 1, Len(scall.sleeps))
      /\ (all429 /\ Len(scall.statuses) = 4) =>
            /\ spc = "done"
            /\ scall.result = "RateLimitExhausted"
            /\ scall.sent = 4
            /\ scall.sleeps = sched
      /\ scall.result = "RateLimitExhausted" =>
            (all429 /\ Len(scall.statuses) = 4 /\ scall.attempt = 3)

C3_Witness ==
  /\ scall.result = "RateLimitExhausted"
  /\ scall.sent = 4
  /\ now = StartOfRun + 315 * OneSecond

\* C4: when j answers of 429 (1 <= j <= 3) are followed by a success status,
\* stripe_http_fetch returns that response, having slept exactly the first j
\* entries of the schedule and sent exactly j + 1 requests, none after it.
C4_ClearedRateLimitReturns ==
  \A j \in 1..3 :
    (/\ Len(scall.statuses) >= j + 1
     /\ \A i \in 1..j : scall.statuses[i] = 429
     /\ Is2xx(scall.statuses[j + 1])) =>
       /\ spc = "done"
       /\ scall.result = "return"
       /\ scall.returned = scall.statuses[j + 1]
       /\ Len(scall.statuses) = j + 1
       /\ scall.sent = j + 1
       /\ scall.sleeps = SubSeq(<<15 * OneSecond, 60 * OneSecond, 240 * OneSecond>>, 1, j)

C4_Witness ==
  /\ scall.result = "return"
  /\ scall.statuses = <<429, 429, 200>>

(* ======================= claims: PayPal HTTP layer ====================== *)

\* C1: one call of paypal_http_fetch sends at most 2 requests to the target
\* and forces at most 1 refresh; it forces the refresh exactly when the first
\* answer is 401; once that refresh has succeeded the request is sent exactly
\* once more; and a retry answered 401 ends the call, when not muted, in the
\* HTTP error.
C1_FetchRetriesOnce ==
  call.op = "fetch" =>
    /\ Len(call.batches) <= 2
    /\ call.forced <= 1
    /\ call.forced = 1 <=> (Len(call.batches) >= 1 /\ call.batches[1].resps = <<401>>)
    /\ Len(call.batches) = 2 => call.forced = 1
    /\ (call.forced = 1 /\ call.result \in {"return", "HttpError"}) => Len(call.batches) = 2
    /\ (/\ pc = "done"
        /\ Len(call.batches) = 2
        /\ call.batches[2].resps = <<401>>
        /\ ~call.mute[1]) => call.result = "HttpError"

C1_Witness ==
  /\ call.op = "fetch"
  /\ call.result = "HttpError"
  /\ call.forced = 1
  /\ Len(call.batches) = 2
  /\ call.batches[2].resps = <<401>>

\* C2: when the first batch of paypal_http_fetchAll has its first 401 at
\* request k and the refresh succeeds, requests k..n are sent again as one
\* batch and the call returns n responses, those before k from the first
\* batch and those from k on from the second.  (Requests count from 1 here.)
C2_FetchAllSplicesRetry ==
  (/\ call.op = "fetchAll"
   /\ pc = "done"
   /\ call.forced = 1
   /\ call.result # "AuthError") =>
      LET first == call.batches[1].resps
          k == CHOOSE i \in 1..call.n :
                 first[i] = 401 /\ \A j \in 1..(i - 1) : first[j] # 401
      IN  /\ Len(call.batches) = 2
          /\ call.batches[2].from = k
          /\ Len(call.batches[2].resps) = call.n - k + 1
          /\ call.result \in {"return", "HttpError"}
          /\ call.result = "return" =>
               /\ Len(call.resps) = call.n
               /\ \A j \in 1..call.n :
                    /\ call.resps[j].req = j
                    /\ call.resps[j].batch = IF j < k THEN 1 ELSE 2

\* C5: whenever paypal_http_guaranteeToken_(force = false) returns without a
\* credential exchange, the token it leaves in use satisfies
\* now < expiresAt - 1 hour at that moment.
C5_CachedTokenWithinMargin ==
  (~guar.force /\ guar.path \in {"memory", "store"}) =>
     guar.now < guar.exp - PAYPAL_ONEHOUR_ms

\* C6: paypal_http_guaranteeToken_ without force, called while a cached token
\* inside its margin exists (in memory, or in the properties on the first
\* call of a process), sends no token request and writes no property.
C6_ValidCachedTokenNoRequest ==
  (/\ guar.path # "none"
   /\ ~guar.force
   /\ \/ /\ guar.pre.mem # 0
         /\ guar.now < guar.pre.memExp - PAYPAL_ONEHOUR_ms
      \/ /\ ~guar.pre.secret
         /\ guar.pre.props.token # 0
         /\ guar.now < guar.pre.props.expires - PAYPAL_ONEHOUR_ms) =>
     /\ guar.path \in {"memory", "store"}
     /\ guar.sent = 0
     /\ ~guar.wrote
     /\ guar.status = 0
     /\ props = guar.pre.props

C6_Witness ==
  /\ guar.path = "store"
  /\ ~guar.force
  /\ guar.now < guar.pre.props.expires - PAYPAL_ONEHOUR_ms
  /\ call.op = "fetch"

\* C7: a token request answered with a status that is not 2xx makes
\* paypal_http_guaranteeToken_ fail with an error that ends the running
\* handler; it was the only token request of that run, and neither the
\* module state nor the properties hold anything taken from the answer.
C7_FailedExchangeIsFatal ==
  (guar.status # 0 /\ ~Is2xx(guar.status)) =>
     /\ pc = "done"
     /\ call.result = "AuthError"
     /\ guar.sent = 1
     /\ ~guar.wrote
     /\ props = guar.pre.props
     /\ paypal_accessToken_ = guar.tok
     /\ guar.tok \in {guar.pre.mem, guar.pre.props.token}
     /\ paypal_defaultHeaders_ = Basic

C7_Witness ==
  /\ guar.status = 401
  /\ call.result = "AuthError"
  /\ guar.pre.props.token # 0

C9_InvalidIntervalBeforeAnyRequest ==
  /\ (src.pcS # "idle" /\ src.args.start > src.args.end) =>
        /\ src.pcS = "done"
        /\ src.result = "InvalidInterval"
        /\ src.log = <<>>
        /\ pc = "idle" /\ call = NoCall /\ guar = NoGuar /\ inFlight = 0
  /\ (ssrc.pcS # "idle" /\ ssrc.args.start > ssrc.args.end) =>
        /\ ssrc.pcS = "done"
        /\ ssrc.result = "InvalidInterval"
        /\ ssrc.log = <<>>
        /\ spc = "idle" /\ scall = NoStripeCall

\* C10: every transaction-search request that paypal_getTransactions_ hands
\* to the HTTP layer spans at most 31 days from its start_date to its
\* end_date.
C10_ChunksWithinMaxInterval ==
  \A i \in 1..Len(src.log) :
    src.log[i].kind = "txn" =>
      /\ src.log[i].start <= src.log[i].end
      /\ src.log[i].end - src.log[i].start <= 31 * 24 * 60 * 60 * OneSecond

C10_Witness ==
  /\ src.args.end - src.args.start > 31 * 24 * 60 * 60 * OneSecond
  /\ \E i, j \in 1..Len(src.log) :
       /\ i < j
       /\ src.log[i].kind = "txn" /\ src.log[j].kind = "txn"
       /\ src.log[i].end - src.log[i].start = 31 * 24 * 60 * 60 * OneSecond
       /\ src.log[j].start = src.log[i].end + OneSecond
       /\ src.log[j].end = src.args.end

\* The chunks requested so far: the first-page requests, in order.
ChunksRequested ==
  SelectSeq(src.log, LAMBDA r : r.kind = "txn" /\ r.page = 1)

\* C11 (as stated): the chunks requested for [start, end] tile it exactly: the
\* first starts at start, each following one starts one second after the
\* inclusive end of the one before, and, once the transactions are returned,
\* the last chunk ends at end.
C11_ChunksTileExactly ==
  LET ch == ChunksRequested
  IN  /\ Len(ch) >= 1 => ch[1].start = src.args.start
      /\ \A i \in 1..(Len(ch) - 1) : ch[i + 1].start = ch[i].end + OneSecond
      /\ src.result = "out" => (Len(ch) >= 1 /\ ch[Len(ch)].end = src.args.end)

\* C11 (amended): the first chunk starts at start, each following chunk starts
\* exactly one second after the inclusive end of the one before, no chunk is
\* empty, and, once the transactions are returned, the last chunk ends at end
\* or less than one second before it.
C11_ChunksTileToTheSecond ==
  LET ch == ChunksRequested
  IN  /\ Len(ch) >= 1 => ch[1].start = src.args.start
      /\ \A i \in 1..(Len(ch) - 1) : ch[i + 1].start = ch[i].end + OneSecond
      /\ \A i \in 1..Len(ch) : ch[i].start <= ch[i].end
      /\ src.result = "out" =>
           /\ Len(ch) >= 1
           /\ ch[Len(ch)].end <= src.args.end
           /\ src.args.end - ch[Len(ch)].end < OneSecond

C11_Witness ==
  /\ src.result = "out"
  /\ Len(ChunksRequested) >= 2
  /\ ChunksRequested[Len(ChunksRequested)].end < src.args.end

\* C12: when the first-page response of the first chunk is an error with the
\* start-date condition, paypal_getTransactions_ returns null and so does
\* paypal_makeReportOfx: no error, no report, and no request after that first
\* page (no further page, no further chunk, no balance request).
C12_StartDateTooNewIsNoData ==
  (/\ Len(src.pages1) >= 1
   /\ src.pages1[1].status >= 400
   /\ src.pages1[1].kind = "start_date") =>
     /\ src.pcS = "done"
     /\ src.result = "null"
     /\ Len(src.pages1) = 1
     /\ src.log = <<TxnRequest(src.args.start, ChunkEnd(src.args.start, src.args.end), 1)>>
     /\ pc = "idle" /\ call = NoCall
     /\ rep.result \in {"none", "null"}
     /\ rep.pcR = "done" => (rep.result = "null" /\ rep.header = <<>> /\ rep.blocks = <<>>)

C12_Witness ==
  /\ rep.pcR = "done"
  /\ rep.result = "null"
  /\ Len(src.pages1) = 1
  /\ src.pages1[1].kind = "start_date"

\* C13: in every report produced, the transaction blocks follow each other
\* in non-decreasing order of date, and each block carries the effective date
\* (updated date if present, else initiation date) of a transaction received,
\* whatever chunks and pages the transactions arrived in.
C13_BlocksInDateOrder ==
  rep.result = "report" =>
    /\ \A i, j \in 1..Len(rep.blocks) :
         i < j => rep.blocks[i].DTPOSTED <= rep.blocks[j].DTPOSTED
    /\ \A i \in 1..Len(rep.blocks) :
         \E k \in 1..Len(Flat(src.results)) :
           rep.blocks[i].DTPOSTED = EffectiveDate(Flat(src.results)[k])
    /\ rep.numTxns = Len(Flat(src.results))
    /\ Len(rep.blocks) >= rep.numTxns

C13_Witness ==
  /\ rep.result = "report"
  /\ Len(src.results) >= 2
  /\ \E k \in 1..(Len(Flat(src.results)) - 1) :
       EffectiveDate(Flat(src.results)[k]) > EffectiveDate(Flat(src.results)[k + 1])
  /\ Len(rep.blocks) >= 4

\* C14: in net mode paypal_makeReportOfx emits, for the transactions that
\* paypal_getTransactions_ returned, exactly one block per transaction and no
\* FEE entry, each at the transaction's gross amount minus its fee amount.
C14_NetModeOneBlockEach ==
  (rep.pcR = "done" /\ rep.mode = "net" /\ src.result = "out") =>
     /\ rep.result = "report"
     /\ Len(rep.blocks) = Len(src.out.txns)
     /\ \A i \in 1..Len(rep.blocks) :
          /\ rep.blocks[i].FITID = src.out.txns[i].id \o <<"-">> \o src.out.txns[i].code
          /\ rep.blocks[i].TRNAMT = src.out.txns[i].gross - src.out.txns[i].fee

RECURSIVE GrossBlocksExpected(_)
\* The blocks C15 describes for a list of transactions.
GrossBlocksExpected(txns) ==
  IF txns = <<>> THEN <<>>
  ELSE LET t == Head(txns)
       IN  <<[amount |-> t.gross, date |-> EffectiveDate(t), fee |-> FALSE, of |-> t.id]>>
           \o (IF t.fee # 0
               THEN <<[amount |-> t.fee, date |-> EffectiveDate(t), fee |-> TRUE, of |-> t.id]>>
               ELSE <<>>)
           \o GrossBlocksExpected(Tail(txns))

\* C15: in gross mode every transaction returned is emitted at its gross
\* amount, directly followed, if and only if its fee is not zero, by a FEE
\* entry of the same date whose id is the transaction id plus a suffix and
\* whose name is the provider's; the report holds one block per transaction
\* plus one per transaction with a fee.
C15_GrossModeFeeEntries ==
  (rep.pcR = "done" /\ rep.mode = "gross" /\ src.result = "out") =>
     LET want == GrossBlocksExpected(src.out.txns)
     IN  /\ rep.result = "report"
         /\ Len(rep.blocks) = Len(want)
         /\ \A i \in 1..Len(want) :
              /\ rep.blocks[i].TRNAMT = want[i].amount
              /\ rep.blocks[i].DTPOSTED = want[i].date
              /\ SubSeq(rep.blocks[i].FITID, 1, Len(want[i].of)) = want[i].of
              /\ Len(rep.blocks[i].FITID) > Len(want[i].of)
              /\ want[i].fee => /\ rep.blocks[i].TRNTYPE = "FEE"
                                /\ rep.blocks[i].NAME = PayPalName

(* ======================= claims: report amounts and the OFX writer ====== *)

\* The amount of the FEE entry among the blocks of one transaction, 0 when
\* there is none.
FeeEntryAmount(blocks) == IF Len(blocks) = 2 THEN blocks[2].TRNAMT ELSE 0

SixTypes ==
  {"CREDIT", "credit", "Credit", "DEBIT", "debit", "Debit", "XFER", "xfer", "Xfer",
   "FEE", "fee", "Fee", "INT", "int", "Int", "PAYMENT", "payment", "Payment"}

\* C17: ofx_makeTxn returns a block exactly for the type codes CREDIT, DEBIT,
\* XFER, FEE, INT and PAYMENT in any case, and throws for every other code.
C17_AcceptsTheSixTypes ==
  ofx.op = "ofx_makeTxn" => (ofx.block.ok <=> ofx.type \in SixTypes)

\* C18: the text emitted after FITID, NAME, MEMO, BANKID and ACCTID is never
\* longer than 255, 32, 255, 9 and 22 characters.
C18_FieldsWithinLimits ==
  /\ (ofx.op = "ofx_makeTxn" /\ ofx.block.ok) =>
        /\ Len(ofx.block.FITID) <= 255
        /\ Len(ofx.block.NAME) <= 32
        /\ Len(ofx.block.MEMO) <= 255
  /\ ofx.op = "ofx_makeHeader" =>
        /\ Len(ofx.header[1].BANKID) <= 9
        /\ Len(ofx.header[1].ACCTID) <= 22

EscapeSequences ==
  {<<"&", "a", "m", "p", ";">>, <<"&", "l", "t", ";">>, <<"&", "r", "t", ";">>}

Occurrences(text, chars) == Cardinality({i \in 1..Len(text) : text[i] \in chars})

\* A field rendered from the first limit characters of an input: no angle
\* bracket is left, every ampersand opens an escape sequence, and there is
\* one ampersand for each special character of those first characters.
Rendered(field, input, limit) ==
  /\ Occurrences(field, {"<", ">"}) = 0
  /\ \A i \in 1..Len(field) :
       field[i] = "&" =>
         \E e \in EscapeSequences :
           /\ i + Len(e) - 1 <= Len(field)
           /\ SubSeq(field, i, i + Len(e) - 1) = e
  /\ Occurrences(field, {"&"})
       = Occurrences(SubSeq(input, 1, Min(limit, Len(input))), {"&", "<", ">"})

\* C19: the rendered FITID, NAME, MEMO, BANKID and ACCTID hold no '<' and no
\* '>', and every '&' in them opens one of the escape sequences of
\* ofx_escape_, one for each special character of the input that was kept.
C19_NoBareSpecialCharacter ==
  /\ (ofx.op = "ofx_makeTxn" /\ ofx.block.ok) =>
        /\ Rendered(ofx.block.FITID, ofx.text, 255)
        /\ Rendered(ofx.block.NAME, ofx.text, 32)
        /\ Rendered(ofx.block.MEMO, ofx.text, 255)
  /\ ofx.op = "ofx_makeHeader" =>
        /\ Rendered(ofx.header[1].BANKID, ofx.text, 9)
        /\ Rendered(ofx.header[1].ACCTID, ofx.text, 22)

C19_Witness ==
  /\ ofx.op = "ofx_makeTxn"
  /\ ofx.text = Repeat("a", 31) \o <<">", "<">>
  /\ ofx.block.NAME = Repeat("a", 31) \o <<"&", "r", "t", ";">>
  /\ Len(ofx.block.MEMO) = 39

(* ======================= claims: Stripe source ========================== *)

\* C20: when the requested start is at or beyond the end of the range the
\* provider reports as available, stripe_getTransactions_ and
\* stripe_makeReportOfx return null, and the data-available query is the only
\* request sent: no balance report job, no transaction-list request.
C20_StartBeyondAvailableIsNoData ==
  (/\ ssrc.pcS = "done"
   /\ ssrc.availEnd # 0
   /\ ssrc.startDate >= ssrc.availEnd) =>
     /\ ssrc.result = "null"
     /\ ssrc.log = <<"report_types">>
     /\ rep.pcR = "done" => rep.result = "null"

(* ======================= claims: PayPal error policy ==================== *)

\* The responses a finished call holds after its auth retry, when every
\* request it was given has one: the answers of the re-sent batch over the
\* first answers before it.
HasFinalResponses(c) ==
  /\ Len(c.batches) >= 1
  /\ c.batches[Len(c.batches)].resps # <<>>
  /\ \/ Len(c.batches) = 2
     \/ \A i \in 1..c.n : ~Unauthorized(c.batches[1].resps[i])

FinalStatus(c, i) ==
  LET last == c.batches[Len(c.batches)]
  IN  IF i >= last.from THEN last.resps[i - last.from + 1] ELSE c.batches[1].resps[i]

\* C21: a call of paypal_http_fetch or paypal_http_fetchAll whose requests
\* were sent and whose token refresh, if any, succeeded ends either in the
\* HTTP error or in the return of its final responses; in the HTTP error
\* exactly when a final response (after the auth retry) has a status >= 400
\* and muting was not asked for that request; with muting asked for every
\* request the error responses are returned and nothing is thrown.
C21_ThrowsExactlyOnUnmutedError ==
  (/\ pc = "done"
   /\ call.op \in {"fetch", "fetchAll"}
   /\ call.batches # <<>>
   /\ call.result # "AuthError") =>
     /\ call.result \in {"HttpError", "return"}
     /\ HasFinalResponses(call)
     /\ call.result = "HttpError" <=>
          \E i \in 1..call.n : ~call.mute[i] /\ FinalStatus(call, i) >= 400
     /\ call.result = "return" =>
          /\ Len(call.resps) = call.n
          /\ \A i \in 1..call.n : call.resps[i].status = FinalStatus(call, i)

\* The same statement for paypal_http_fetch alone.
FetchThrowsExactlyOnUnmutedError ==
  call.op = "fetch" => C21_ThrowsExactlyOnUnmutedError

(* ======================= claims: PayPal source errors =================== *)

\* C22: when the first page of any chunk comes back from paypal_http_fetch
\* with a status >= 400 that is not the start-date condition,
\* paypal_getTransactions_ ends in the HTTP error; that first-page request is
\* the last request it sent (no later chunk, no balance request) and no
\* report is returned.
C22_FirstPageErrorIsHttpError ==
  \A i \in 1..Len(src.pages1) :
    (src.pages1[i].status >= 400 /\ src.pages1[i].kind # "start_date") =>
      /\ i = Len(src.pages1)
      /\ src.pcS = "done"
      /\ src.result = "HttpError"
      /\ src.log[Len(src.log)].kind = "txn"
      /\ src.log[Len(src.log)].page = 1
      /\ rep.result \in {"none", "HttpError"}

\* What of it holds: the run ends in an error, and nothing is sent after it.
FirstPageErrorEndsTheRun ==
  \A i \in 1..Len(src.pages1) :
    (src.pages1[i].status >= 400 /\ src.pages1[i].kind # "start_date") =>
      /\ i = Len(src.pages1)
      /\ src.pcS = "done"
      /\ src.result = "TypeError"
      /\ src.log[Len(src.log)].kind = "txn"
      /\ src.log[Len(src.log)].page = 1
      /\ rep.result \in {"none", "TypeError"}

(* ======================= claims: report interval ======================== *)

RECURSIVE MaxEnd(_)
\* The provider-resolved inclusive end: the latest end_date of the pages heard.
MaxEnd(pages) ==
  IF pages = <<>> THEN 0 ELSE Max(pages[Len(pages)].end_date, MaxEnd(SubSeq(pages, 1, Len(pages) - 1)))

\* The provider echoed the requested range of every chunk.
ProviderEchoes ==
  /\ Len(src.pages1) = Len(ChunksRequested)
  /\ \A i \in 1..Len(src.pages1) : src.pages1[i].end_date = ChunksRequested[i].end

\* C23 (as stated): for a requested exclusive end E, paypal_makeReportOfx
\* hands E - 1s to paypal_getTransactions_ and the last inclusive end sent to
\* the provider is E - 1s; the report's endDate is the provider-resolved
\* inclusive end + 1s; so when the provider echoes the requested range the
\* report's endDate equals E.
C23_EndConvertedOnceEachWay ==
  (target = "paypal" /\ rep.pcR # "idle") =>
    /\ src.pcS # "idle" => src.args.end = rep.asked.end - OneSecond
    /\ src.result = "out" =>
         ChunksRequested[Len(ChunksRequested)].end = rep.asked.end - OneSecond
    /\ rep.result = "report" =>
         /\ rep.endDate = MaxEnd(src.pages1) + OneSecond
         /\ ProviderEchoes => rep.endDate = rep.asked.end

\* C23 (amended): paypal_makeReportOfx hands E - 1s to
\* paypal_getTransactions_; the last inclusive end sent to the provider is
\* E - 1s or less than one second before it; the report's endDate is the
\* provider-resolved inclusive end + 1s; so when the provider echoes the
\* requested range the report's endDate is the last inclusive end sent + 1s,
\* which is E or less than one second before E.
C23_EndConvertedOnceToTheSecond ==
  (target = "paypal" /\ rep.pcR # "idle") =>
    /\ src.pcS # "idle" => src.args.end = rep.asked.end - OneSecond
    /\ src.result = "out" =>
         LET last == ChunksRequested[Len(ChunksRequested)].end
         IN  /\ last <= rep.asked.end - OneSecond
             /\ (rep.asked.end - OneSecond) - last < OneSecond
    /\ rep.result = "report" =>
         /\ rep.endDate = MaxEnd(src.pages1) + OneSecond
         /\ ProviderEchoes =>
              /\ rep.endDate = ChunksRequested[Len(ChunksRequested)].end + OneSecond
              /\ rep.endDate <= rep.asked.end
              /\ rep.asked.end - rep.endDate < OneSecond

C23_Witness ==
  /\ rep.result = "report"
  /\ ProviderEchoes
  /\ Len(ChunksRequested) >= 2
  /\ rep.endDate = rep.asked.end

(* ======================= claims: Stripe report ========================== *)

\* C24: the mode is honoured for Stripe as for PayPal: a transaction emitted
\* by stripe_makeReportOfx with mode = net goes out exactly once, at its net
\* amount (amount - fee), without a FEE entry; with mode = gross it goes out
\* at its amount, followed by a FEE entry exactly when its fee is not zero.
C24_StripeHonoursMode ==
  ofx.op = "stripe_emit" =>
    /\ ofx.net # <<>> =>
         /\ Len(ofx.net) = 1
         /\ ofx.net[1].TRNAMT = ofx.txn[1].amount - ofx.txn[1].fee
    /\ ofx.gross # <<>> =>
         /\ ofx.gross[1].TRNAMT = ofx.txn[1].amount
         /\ Len(ofx.gross) = 2 <=> ofx.txn[1].fee # 0
         /\ Len(ofx.gross) = 2 => ofx.gross[2].TRNTYPE = "FEE"

\* What the loop does in either mode: the amount, then the FEE entry.
StripeEmitsGrossInEitherMode ==
  ofx.op = "stripe_emit" =>
    \A blocks \in {ofx.net, ofx.gross} \ {<<>>} :
      /\ blocks[1].TRNAMT = ofx.txn[1].amount
      /\ Len(blocks) = 2 <=> ofx.txn[1].fee # 0
      /\ Len(blocks) = 2 => (blocks[2].TRNTYPE = "FEE" /\ blocks[2].TRNAMT = ofx.txn[1].fee)

(* ======================= claims: statement header ======================= *)

\* C25: the currency code written in the statement header (CURDEF) equals
\* the currency handed to ofx_makeHeader by report generation, for every
\* currency.
C25_HeaderCarriesCurrency ==
  ofx.op = "ofx_makeHeader" => ofx.header[1].CURDEF = ofx.currency

\* What the header carries instead.
HeaderIsAlwaysUSD ==
  ofx.op = "ofx_makeHeader" => ofx.header[1].CURDEF = "USD"

(* ======================= claims: scheduled runs ========================= *)

\* C26: a run of main_doSinceLast_ changes the stored next-start marker of
\* its provider only when a report was produced, and then sets it to that
\* report's endDate; when report generation hands back the no-data marker
\* (null) or fails, the marker is as the run found it and no email was sent.
C26_MarkerFollowsReport ==
  main.pcM # "idle" =>
    /\ main.marker # main.before =>
         /\ rep.result = "report"
         /\ main.result = "report"
         /\ main.marker = rep.endDate
    /\ main.result = "report" =>
         /\ main.marker = rep.endDate
         /\ main.emails = main.sentBefore + 1
    /\ (rep.pcR = "done" /\ rep.result # "report") =>
         /\ main.pcM = "done"
         /\ main.result = rep.result
         /\ main.marker = main.before
         /\ main.emails = main.sentBefore

C26_Witness ==
  /\ main.pcM = "done"
  /\ main.result = "report"
  /\ main.runs = 2
  /\ main.marker = rep.endDate
  /\ main.marker # main.before
  /\ main.before # 0

(* ======================= claims: PayPal auth retry ====================== *)

\* C27: the request (or batch) that is sent again after a refresh forced by a
\* 401 carries the Authorization header Bearer <token just obtained>, not the
\* header of the token that was rejected.
C27_RetryCarriesNewToken ==
  (call.op \in {"fetch", "fetchAll"} /\ Len(call.batches) = 2) =>
     /\ guar.force /\ guar.wrote
     /\ call.batches[2].auth = Bearer(guar.tok)
     /\ call.batches[2].auth # call.batches[1].auth

\* What the retry of paypal_http_fetch carries: the header of its first attempt.
RetryCarriesFirstHeader ==
  (call.op \in {"fetch", "fetchAll"} /\ Len(call.batches) = 2) =>
     /\ guar.force /\ guar.wrote
     /\ paypal_defaultHeaders_ = Bearer(guar.tok)
     /\ call.batches[2].auth = call.batches[1].auth
     /\ call.batches[2].auth # Bearer(guar.tok)

\* C28: one call of paypal_http_fetchAll forces at most one token refresh and
\* sends at most two batches; once the refresh has succeeded the call ends
\* after its second batch, and a response of that batch that is still 401 (or
\* any other status >= 400) ends it, when not muted, in the HTTP error,
\* never in a further retry.
C28_FetchAllRetriesOnce ==
  call.op = "fetchAll" =>
    /\ call.forced <= 1
    /\ Len(call.batches) <= 2
    /\ (pc = "done" /\ call.forced = 1 /\ call.result # "AuthError") =>
         /\ Len(call.batches) = 2
         /\ call.batches[2].resps # <<>>
         /\ (\E i \in 1..call.n : ~call.mute[i] /\ FinalStatus(call, i) >= 400)
              => call.result = "HttpError"

\* What of it holds: at most one forced refresh, and never a second batch.
FetchAllSendsOneBatch ==
  call.op = "fetchAll" =>
    /\ call.forced <= 1
    /\ Len(call.batches) <= 1
    /\ (pc = "done" /\ call.forced = 1 /\ call.result # "AuthError") =>
         call.result = "ReferenceError"

(* ======================= claims: PayPal token state ===================== *)

\* paypal_http_guaranteeToken_ has returned normally from its last run.
GuaranteeReturned ==
  guar.path \in {"memory", "store"} \/ (guar.path = "exchange" /\ guar.wrote)

RequestsOfChunk(start) ==
  SelectSeq(src.log, LAMBDA r : r.kind = "txn" /\ r.start = start)

RECURSIVE TxnsOnPages(_)
\* The transactions on all pages of the chunks heard: those of each first
\* page and one for every further page.
TxnsOnPages(pages) ==
  IF pages = <<>> THEN 0
  ELSE pages[Len(pages)].ntxns + (pages[Len(pages)].total_pages - 1)
         + TxnsOnPages(SubSeq(pages, 1, Len(pages) - 1))

\* C30: for a chunk whose first page reports total_pages = N,
\* paypal_getTransactions_ requests page 1 alone first and then, when N > 1,
\* pages 2..N once each, sent as one batch of paypal_http_fetchAll; and the
\* transactions of all N pages of every chunk are in the result once each.
C30_EveryPageRequestedOnce ==
  /\ \A i \in 1..Len(src.pages1) :
       (/\ src.pages1[i].status < 400
        /\ i < Len(src.pages1) \/ src.pcS # "call_pages") =>
          LET N    == src.pages1[i].total_pages
              reqs == RequestsOfChunk(ChunksRequested[i].start)
          IN  /\ Len(reqs) = N
              /\ \A p \in 1..N : reqs[p].page = p
  /\ src.pcS = "wait_pages" =>
       /\ call.op = "fetchAll"
       /\ call.n = src.totalPages - 1
       /\ pc # "g_wait" => (Len(call.batches) = 1 /\ call.result # "TypeError")
  /\ src.result = "out" => Len(src.out.txns) = TxnsOnPages(src.pages1)

\* What of it holds: the pages are handed to paypal_http_fetchAll as the
\* claim says, but the batch is never sent, so that a run returns only when
\* every chunk had a single page.
PagesBeyondTheFirstNeverSent ==
  /\ \A i \in 1..Len(src.pages1) :
       (/\ src.pages1[i].status < 400
        /\ i < Len(src.pages1) \/ src.pcS # "call_pages") =>
          LET N    == src.pages1[i].total_pages
              reqs == RequestsOfChunk(ChunksRequested[i].start)
          IN  /\ Len(reqs) = N
              /\ \A p \in 1..N : reqs[p].page = p
  /\ src.pcS = "wait_pages" =>
       /\ call.op = "fetchAll"
       /\ call.n = src.totalPages - 1
       /\ call.batches = <<>>
       /\ pc = "done" => call.result \in {"TypeError", "AuthError"}
  /\ src.result = "out" =>
       /\ \A i \in 1..Len(src.pages1) : src.pages1[i].total_pages = 1
       /\ Len(src.out.txns) = TxnsOnPages(src.pages1)

(* ======================= claims: PayPal balance ========================= *)

BalanceRequests == SelectSeq(src.log, LAMBDA r : r.kind = "balance")

\* C31: in every run of paypal_getTransactions_ that returns its result,
\* exactly one balance request was sent; it is the last request of the run,
\* sent after the last transaction page request of the last chunk, and no
\* balance request is sent while a chunk is still open; its as-of time is
\* the resolved end date, the latest end_date the first pages reported.
C31_OneBalanceRequestAtResolvedEnd ==
  /\ Len(BalanceRequests) <= 1
  /\ Len(BalanceRequests) = 1 =>
       /\ src.log[Len(src.log)].kind = "balance"
       /\ src.pcS \in {"wait_balance", "done"}
       /\ Len(src.pages1) = Len(ChunksRequested)
       /\ NextChunkStart(ChunksRequested[Len(ChunksRequested)].end) > src.args.end
       /\ BalanceRequests[1].start = MaxEnd(src.pages1)
  /\ src.result = "out" => Len(BalanceRequests) = 1

C31_Witness ==
  /\ src.result = "out"
  /\ Len(ChunksRequested) = 2
  /\ BalanceRequests[1].start = MaxEnd(src.pages1)
  /\ BalanceRequests[1].start < src.args.end
  /\ src.pages1[1].end_date < ChunksRequested[1].end

(* ======================= Stripe source on parsed answers ================ *)
(* stripe.js reads the parsed body of every answer as resp.json.  The rest  *)
(* of stripe_getTransactions_ is run here against answers that carry it;    *)
(* each step is one call of stripe_http_fetch together with its answer.     *)

MaxStripePages == 3    \* pages of balance transactions of one run
MaxItems       == 2    \* items on one page
MaxPolls       == 6    \* polls of one report job

\* One call of stripe_http_fetch and its answer.  gte, lt, after: the
\* created[gte], created[lt] and starting_after parameters (after 0: none);
\* interval_end: of the report job; slept: Utilities.sleep before the call.
NoStripeCallMade ==
  [kind |-> "none", gte |-> 0, lt |-> 0, after |-> 0, interval_end |-> 0,
   slept |-> 0, status |-> "none", has_more |-> FALSE, data |-> <<>>]

\* Mutant: the requested end is used whatever is available.
ResolvedEnd_unclamped(endDate, availEnd) == endDate

\* endDate = Math.min(endDate, avail.endDate)
ResolvedEnd(endDate, availEnd) == Min(endDate, availEnd)

\* Mutant: the cursor is the first item of the page.
NextCursor_firstItem(data, has_more) == IF has_more THEN data[1].id ELSE 0

\* startAfter = (resp.json.has_more) ? data[data.length - 1].id : null
NextCursor(data, has_more) == IF has_more THEN data[Len(data)].id ELSE 0

\* Mutant: the loop over the pages stops after its first page.
PagesGoOn_never(startAfter) == FALSE

\* while(startAfter)
PagesGoOn(startAfter) == startAfter # 0

\* Mutant: the delay grows without a cap.
NextDelay_uncapped(delay_ms) == delay_ms + 15 * OneSecond

\* delay_ms = Math.min(delay_ms + 15 * 1000, 60 * 1000)
NextDelay(delay_ms) == Min(delay_ms + 15 * OneSecond, 60 * OneSecond)

\* Mutant: a pending job is taken for a finished one.
PollAgain_never(status) == FALSE

\* while(resp.json.status === 'pending')
PollAgain(status) == status = "pending"

RECURSIVE InsertByCreated(_, _)
InsertByCreated(t, sorted) ==
  IF sorted = <<>> THEN <<t>>
  ELSE IF t.created < Head(sorted).created THEN <<t>> \o sorted
  ELSE <<Head(sorted)>> \o InsertByCreated(t, Tail(sorted))

RECURSIVE SortByCreated(_)
\* out.txns.sort((a,b) => a.created - b.created): stable, ascending
SortByCreated(txns) ==
  IF txns = <<>> THEN <<>>
  ELSE InsertByCreated(txns[Len(txns)], SortByCreated(SubSeq(txns, 1, Len(txns) - 1)))

\* stripe_http_fetch throws (an HTTP error, or 429 to the last retry): the
\* run ends in that error at whichever call it was making
StripeCallThrows ==
  /\ ssrc.pcS \in {"call_avail", "call_create", "call_txns", "call_poll", "call_download"}
  /\ ssrc' = [ssrc EXCEPT !.pcS = "done", !.result = "HttpError",
                          !.calls = Append(@, [NoStripeCallMade EXCEPT
                                                 !.kind = ssrc.pcS, !.status = "thrown"])]
  /\ UNCHANGED <<httpVars, stripeHttpVars, target, main, src, rep, ofx>>

\* stripe_getAvailableDates_() answered with its parsed body; then the
\* comparison with the start, the clamp and the out object
StripeAvailableParsed(data_available_end) ==
  /\ ssrc.pcS = "call_avail"
  /\ LET asked == [NoStripeCallMade EXCEPT !.kind = "report_types", !.status = "ok"]
         s     == [ssrc EXCEPT !.calls = Append(@, asked), !.availEnd = data_available_end]
         endDate == ResolvedEnd(ssrc.endDate, data_available_end)
     IN  ssrc' = IF ssrc.startDate >= data_available_end
                 THEN [s EXCEPT !.pcS = "done", !.result = "null"]
                 ELSE [s EXCEPT !.pcS = "call_create", !.endDate = endDate,
                                !.out = [startDate |-> ssrc.startDate * OneSecond,
                                         endDate |-> endDate * OneSecond,
                                         reportDate |-> data_available_end * OneSecond,
                                         balance |-> 0, txns |-> <<>>]]
  /\ UNCHANGED <<httpVars, stripeHttpVars, target, main, src, rep, ofx>>

\* function stripe_requestBalanceReport_(date, currency), called with the
\* clamped endDate.  On status 'failed' it calls console.err, which is no
\* function of the console object: a TypeError, before the throw of
\* 'balance report failed'.
StripeJobCreated(status) ==
  /\ ssrc.pcS = "call_create"
  /\ LET asked == [NoStripeCallMade EXCEPT !.kind = "report_runs", !.status = status,
                                           !.interval_end = ssrc.endDate]
         s     == [ssrc EXCEPT !.calls = Append(@, asked)]
     IN  ssrc' = IF status = "failed"
                 THEN [s EXCEPT !.pcS = "done", !.result = "TypeError"]
                 ELSE [s EXCEPT !.pcS = "call_txns", !.reportId = 1]
  /\ UNCHANGED <<httpVars, stripeHttpVars, target, main, src, rep, ofx>>

\* One turn of the do-while over the pages of /v1/balance_transactions; at
\* its end results.flat() and the sort
StripeTxnPage(data, has_more) ==
  /\ ssrc.pcS = "call_txns"
  /\ LET asked == [NoStripeCallMade EXCEPT !.kind = "balance_transactions",
                     !.status = "ok", !.gte = ssrc.startDate, !.lt = ssrc.endDate,
                     !.after = ssrc.startAfter, !.has_more = has_more, !.data = data]
         results == IF Len(data) > 0 THEN Append(ssrc.results, data) ELSE ssrc.results
         startAfter == NextCursor(data, has_more)
         s == [ssrc EXCEPT !.calls = Append(@, asked), !.results = results,
                           !.startAfter = startAfter]
     IN  ssrc' = IF PagesGoOn(startAfter) THEN s
                 ELSE [s EXCEPT !.pcS = "call_poll", !.delay_ms = 0,
                                !.out.txns = SortByCreated(Flat(results))]
  /\ UNCHANGED <<httpVars, stripeHttpVars, target, main, src, rep, ofx>>

\* One turn of the do-while of stripe_getBalanceFromReport_(id): the sleep,
\* the next delay, the poll; after the loop the check for 'failed', which
\* calls console.err as stripe_requestBalanceReport_ does
StripePoll(status) ==
  /\ ssrc.pcS = "call_poll"
  /\ LET asked == [NoStripeCallMade EXCEPT !.kind = "poll", !.status = status,
                                           !.slept = ssrc.delay_ms]
         s     == [ssrc EXCEPT !.calls = Append(@, asked),
                               !.delay_ms = NextDelay(ssrc.delay_ms)]
     IN  ssrc' = IF PollAgain(status) THEN s
                 ELSE IF status = "failed"
                 THEN [s EXCEPT !.pcS = "done", !.result = "TypeError"]
                 ELSE [s EXCEPT !.pcS = "call_download"]
  /\ UNCHANGED <<httpVars, stripeHttpVars, target, main, src, rep, ofx>>

\* resp = stripe_http_fetch(resp.json.result.url) and the parse of the CSV:
\* the net of the total row is the balance
StripeDownload(balance) ==
  /\ ssrc.pcS = "call_download"
  /\ ssrc' = [ssrc EXCEPT !.pcS = "done", !.result = "out", !.out.balance = balance,
                          !.calls = Append(@, [NoStripeCallMade EXCEPT
                                                 !.kind = "download", !.status = "ok"])]
  /\ UNCHANGED <<httpVars, stripeHttpVars, target, main, src, rep, ofx>>

\* stripe_getTransactions_ returned its result: the rest of
\* stripe_makeReportOfx.  The loop over res.txns throws when ofx_makeTxn
\* refuses a type (emitted FALSE), which takes a transaction.
StripeReportMade(emitted) ==
  /\ target = "stripe"
  /\ rep.pcR = "running"
  /\ ssrc.pcS = "done"
  /\ ssrc.result = "out"
  /\ emitted \/ Len(ssrc.out.txns) > 0
  /\ rep' = IF emitted
            THEN [rep EXCEPT !.pcR = "done", !.result = "report",
                             !.reportDate = ssrc.out.reportDate,
                             !.startDate = ssrc.out.startDate,
                             !.endDate = ssrc.out.endDate,
                             !.balance = ssrc.out.balance,
                             !.numTxns = Len(ssrc.out.txns)]
            ELSE [rep EXCEPT !.pcR = "done", !.result = "InvalidTransactionType"]
  /\ main' = MainHears(rep')
  /\ UNCHANGED <<httpVars, stripeHttpVars, target, src, ssrc, ofx>>

RunStarts  == {SourceEpoch, SourceEpoch + 1}
RunLengths == {0 - 1, 0, OneSecond, 2 * OneSecond + 1}

\* data_available_end, in seconds: at the requested start, inside the
\* requested interval, at its end and beyond it
RunAvailableEnds == {stripe_timestamp(SourceEpoch) + d : d \in 0..3}

JobStatuses == {"pending", "succeeded", "failed"}

\* The page of k items the provider answers with after n items: ids n+1,
\* n+2, ..., created in the second of the requested start or the next one,
\* not in ascending order.
StripePageData(n, startDate, k) ==
  [i \in 1..k |-> [id |-> n + i, created |-> startDate + ((k - i) % 2)]]

ItemsFetched == Len(Flat(ssrc.results))

PagesFetched ==
  Len(SelectSeq(ssrc.calls, LAMBDA c : c.kind = "balance_transactions"))

PollsMade == Len(SelectSeq(ssrc.calls, LAMBDA c : c.kind = "poll"))

InitStripeRun ==
  /\ now = StartOfRun
  /\ PaypalHttpFresh
  /\ props = [token |-> 0, expires |-> 0]
  /\ issued = 0
  /\ StripeHttpFresh
  /\ target = "stripe"
  /\ SourcesIdle

NextStripeRun ==
  \/ \E start \in RunStarts, len \in RunLengths :
       stripe_makeReportOfx(start, start + len) /\ UNCHANGED main
  \/ StripeCallThrows
  \/ \E e \in RunAvailableEnds : StripeAvailableParsed(e)
  \/ \E status \in JobStatuses : StripeJobCreated(status)
  \/ \E k \in 0..MaxItems, has_more \in BOOLEAN :
       /\ has_more => (k > 0 /\ PagesFetched + 1 < MaxStripePages)
       /\ StripeTxnPage(StripePageData(ItemsFetched, ssrc.startDate, k), has_more)
  \/ \E status \in JobStatuses :
       /\ status = "pending" => PollsMade + 1 < MaxPolls
       /\ StripePoll(status)
  \/ \E balance \in Balances : StripeDownload(balance)
  \/ \E emitted \in BOOLEAN : StripeReportMade(emitted)
  \/ StripeReportReturns

SpecStripeRun == InitStripeRun /\ [][NextStripeRun]_vars

(* ======================= claims: Stripe source ========================== *)

CallsOfKind(kind) == SelectSeq(ssrc.calls, LAMBDA c : c.kind = kind)

\* The run got beyond the comparison of the start with the available end.
StripeRunResolved ==
  /\ ssrc.availEnd # 0
  /\ ssrc.startDate < ssrc.availEnd

CallRank(c) ==
  CASE c.kind \in {"report_types", "call_avail"}           -> 1
    [] c.kind \in {"report_runs", "call_create"}           -> 2
    [] c.kind \in {"balance_transactions", "call_txns"}    -> 3
    [] c.kind \in {"poll", "call_poll"}                    -> 4
    [] c.kind \in {"download", "call_download"}            -> 5

TxnCallsMade == CallsOfKind("balance_transactions")

\* The ids of a list of items, in order.
Ids(items) == [i \in 1..Len(items) |-> items[i].id]

Polls == CallsOfKind("poll")

JobFailed ==
  \E i \in 1..Len(ssrc.calls) :
    /\ ssrc.calls[i].kind \in {"report_runs", "poll"}
    /\ ssrc.calls[i].status = "failed"

\* C36: when the balance report job reports status failed, at its creation
\* or at a poll, the run ends with the report-generation-failed error
\* ('balance report failed'), no result file is downloaded and no report is
\* returned.
C36_FailedJobIsReportFailed ==
  JobFailed =>
    /\ ssrc.pcS = "done"
    /\ ssrc.result = "ReportGenerationFailed"
    /\ CallsOfKind("download") = <<>>
    /\ rep.result # "report"

\* What holds of a failed job: the run ends in an error, without download
\* and without report.
FailedJobGivesNoReport ==
  JobFailed =>
    /\ ssrc.pcS = "done"
    /\ ssrc.result = "TypeError"
    /\ CallsOfKind("download") = <<>>
    /\ CallsOfKind("call_download") = <<>>
    /\ rep.result \in {"none", "TypeError"}

(* ======================= claims: successive reports ===================== *)

\* The reports recorded before the current run of main_doSinceLast_.
ReportsBefore ==
  IF main.result = "report"
  THEN SubSeq(main.reports, 1, Len(main.reports) - 1)
  ELSE main.reports

PagesFetchedBefore ==
  SelectSeq(SubSeq(src.pages1, 1, Len(src.pages1) - 1), LAMBDA p : p.kind = "page")

\* C38: paypal_getTransactions_ returns the no-data marker (null) only when
\* no transaction page has been fetched yet; a start-date error on the first
\* page of a second or later chunk does not end the run in null.
C38_NullOnlyBeforeAnyPage ==
  src.result = "null" => PagesFetchedBefore = <<>>

\* What holds: null is returned exactly for a start-date error on the first
\* page of a chunk, whichever chunk it is, and nothing is requested after it.
NullAfterStartDateErrorOfAnyChunk ==
  /\ src.result = "null" =>
       /\ src.pages1[Len(src.pages1)].kind = "start_date"
       /\ src.pages1[Len(src.pages1)].status >= 400
       /\ Len(src.log) = Len(src.pages1)
       /\ BalanceRequests = <<>>
  /\ \A i \in 1..Len(src.pages1) :
       (src.pages1[i].kind = "start_date" /\ src.pcS = "done") =>
          /\ i = Len(src.pages1)
          /\ src.result = "null"

\* Every first page of the run was answered successfully, without transactions.
NoTransactionsReported ==
  /\ src.pages1 # <<>>
  /\ \A i \in 1..Len(src.pages1) :
       /\ src.pages1[i].kind = "page"
       /\ src.pages1[i].status < 400
       /\ src.pages1[i].ntxns = 0

\* C39: when the provider answers a valid, published interval with no
\* transactions, paypal_getTransactions_ returns its result with an empty list
\* (not null), and paypal_makeReportOfx returns a report of the header, no
\* transaction block and the footer with the balance, numTxns = 0; such a run
\* ends otherwise only in the error of one of its requests, never in null.
C39_EmptyIntervalGivesEmptyReport ==
  /\ (src.result = "out" /\ src.results = <<>>) =>
       /\ src.out.txns = <<>>
       /\ rep.pcR = "done" =>
            /\ rep.result = "report"
            /\ Len(rep.header) = 1
            /\ rep.blocks = <<>>
            /\ rep.footer = <<ofx_makeFooter(src.out.balance, rep.endDate)>>
            /\ rep.balance = src.out.balance
            /\ rep.numTxns = 0
  /\ (src.pcS = "done" /\ NoTransactionsReported) =>
       /\ src.result # "null"
       /\ src.result \in {"out", "HttpError", "AuthError", "TypeError"}
       /\ src.result = "TypeError" => src.nreq > 0
       /\ src.result = "HttpError" => BalanceRequests # <<>>

C39_Witness ==
  /\ rep.pcR = "done"
  /\ rep.result = "report"
  /\ NoTransactionsReported
  /\ Len(src.pages1) = 2
  /\ rep.numTxns = 0
  /\ rep.blocks = <<>>
  /\ rep.balance = 7

\* floor((end - start) / (31 days + 1 second)) + 1
ChunksExpected ==
  ((src.args.end - src.args.start) \div (PAYPAL_MAX_INTERVAL_ms + OneSecond)) + 1

\* The provider answered every request it received successfully.
ProviderAnsweredAll ==
  /\ src.pages1 # <<>>
  /\ \A i \in 1..Len(src.pages1) :
       src.pages1[i].kind = "page" /\ src.pages1[i].status < 400
  /\ src.result \notin {"HttpError", "AuthError"}

ChunkStartsAdvance ==
  \A i \in 1..(Len(ChunksRequested) - 1) :
    ChunksRequested[i + 1].start > ChunksRequested[i].start

\* C40: for a valid interval and a provider that answers every request
\* successfully with a finite total_pages, the chunk loop of
\* paypal_getTransactions_ ends after exactly
\* floor((end - start) / (31 days + 1 second)) + 1 chunks, each starting later
\* than the one before.
C40_ChunkLoopRunsAllChunks ==
  (src.pcS = "done" /\ ProviderAnsweredAll) =>
     /\ Len(ChunksRequested) = ChunksExpected
     /\ ChunkStartsAdvance

\* What holds: the chunk starts advance, never more than the expected chunks
\* are requested, and a run that gets to its balance request has requested
\* exactly that many; a run stops short only at a chunk of several pages.
ChunkLoopEndsAtExpectedCount ==
  /\ ChunkStartsAdvance
  /\ src.pcS # "idle" => Len(ChunksRequested) <= ChunksExpected
  /\ BalanceRequests # <<>> =>
       /\ Len(ChunksRequested) = ChunksExpected
       /\ ChunksExpected >= 1
  /\ (src.pcS = "done" /\ ProviderAnsweredAll /\ Len(ChunksRequested) < ChunksExpected) =>
       /\ src.result = "TypeError"
       /\ src.pages1[Len(src.pages1)].total_pages > 1

====
